---- MODULE Spec2Model ----
(***************************************************************************)
(* Boot-time pool discovery and import (src/module/zfs/zfs_boot.cpp).      *)
(*                                                                         *)
(* Spec     : zfs_boot_init, the zfs_boot_probe_media notifier callbacks,  *)
(*            zfs_boot_import_thread (with zfs_boot_probe_disk and         *)
(*            zfs_boot_free) and zfs_boot_fini, interleaved statement by   *)
(*            statement at every access to the shared pool_list_t.         *)
(* FairSpec : Spec with the scheduling of the kernel threads made fair.    *)
(* SpecAgg  : zfs_boot_add_config applied to arbitrary decoded configs.    *)
(* SpecLabel: zfs_boot_read_label applied to media with arbitrary labels.  *)
(* SpecOffset: the label offsets zfs_boot_read_label reads at, per size.   *)
(* SpecCfg  : zfs_boot_get_configs applied to the tree add_config built.   *)
(* SpecMatch: zfs_boot_probe_disk for one media and every target pool.     *)
(* SpecPublish: the worker after zfs_boot_free: zfs_boot_publish_bootfs    *)
(*            and the ZFSBootDevice it registers; FairPublish schedules    *)
(*            the worker fairly.                                           *)
(* SpecFix  : zfs_boot_fix_paths applied to leaves and name lists.         *)
(***************************************************************************)
EXTENDS Integers, Sequences, FiniteSets

\* ------------------------------------------------------------------ bounds
NumCallbacks == 1      \* host threads delivering notifier callbacks
MaxArrivals == 2       \* IOMediaBSDClient publications during one boot
NumMedia == 5          \* IOMedia objects the host can publish
MaxAdds == 3           \* add_config calls in SpecAgg
MaxCfgAdds == 3        \* add_config calls in SpecCfg
MaxChildren == 3       \* top-level vdevs of a pool in SpecCfg
MaxQueries == 2        \* geometry queries of the host in SpecPublish
MaxNames == 3          \* NameEntries in SpecFix

\* --------------------------------------------------------------- constants
ZFS_BOOT_ACTIVE == 1
ZFS_BOOT_TERMINATING == 2
POOL_STATE_ACTIVE == 0
POOL_STATE_DESTROYED == 2
POOL_STATE_SPARE == 3
POOL_STATE_L2CACHE == 4
SPA_MINDEVSIZE == 67108864

\* A uint64 nvlist key that nvlist_lookup_uint64 does not find.
Absent == 0 - 1
\* A string nvlist key that nvlist_lookup_string does not find / a NULL char*.
NoName == "<null>"
\* kmutex owner when the mutex is not held.
NoOwner == 0
\* zfs_boot_publish_bootfs has not returned.
NoRet == "none"
\* zfs_boot_fix_paths has not been called.
\* A vdev nvlist without guid, path, devid and children.
NoNv == [leaf |-> TRUE, guid |-> Absent, path |-> <<>>, devid |-> NoName,
         children |-> <<>>]
NoFix == [ret |-> 1, nv |-> NoNv]
\* A NULL nvlist_t*.
NoConfig == [pool_state |-> Absent, pool_name |-> NoName, pool_guid |-> Absent,
             guid |-> Absent, top_guid |-> Absent, txg |-> Absent, src |-> 0,
             vdev_children |-> Absent, hole_array |-> {}, id |-> Absent]

Callbacks == 1..NumCallbacks
WorkerId == NumCallbacks + 1
MediaIds == 1..NumMedia
\* Indices of the child array of zfs_boot_get_configs.
JunkSlots == 0..(MaxChildren - 1)

VARIABLES
    initPc,             \* position of zfs_boot_init
    pool_name,          \* pools->pool_name
    terminating,        \* pools->terminating (0 after bzero)
    zfs_boot_pool_list, \* the global pointer is non-null
    notifierReg,        \* the host delivers callbacks for the notification
    notifierField,      \* pools->notifier is non-null
    lockState,          \* pools->lock : "uninit" | "init" | "destroyed"
    lockOwner,          \* thread holding pools->lock
    cvState,            \* pools->cv   : "uninit" | "init"
    disks,              \* pools->disks (OSSet, members in insertion order)
    disksReleased,      \* pools->disks has been released
    treeFreed,          \* the pool / name lists have been freed
    plFreed,            \* number of kmem_free calls on the pool_list_t
    plFreedActive,      \* a kmem_free of the pool_list_t saw terminating Active
    pools,              \* pools->pools (head first)
    names,              \* pools->names (head first)
    cbPc, cbMedia,      \* per callback thread: position and its IOMedia
    arrivals,           \* callbacks delivered so far
    wPc,                \* position of zfs_boot_import_thread
    wDisks,             \* worker local 'disks' (the drained set)
    wNewSet,            \* worker local 'new_set' is non-null
    wIter,              \* worker iterator position in wDisks
    wCfg,               \* worker: config/num_labels/path of the current probe
    wConfigs,           \* worker: pool configs still to try in this iteration
    pool_imported,      \* worker local pool_imported
    fPc,                \* position of zfs_boot_fini
    uaf,                \* actors that touched destroyed or freed state
    lockMisuse,         \* a mutex / cv call was made on a lock in the wrong state
    unlockedAccess,     \* kinds of shared state accessed without holding lock
    panicked,           \* the kernel panicked
    addLog,             \* SpecAgg: configs passed to add_config, in call order
    freedCfgs,          \* SpecAgg: configs nvlist_free'd by add_config, in order
    addRet,             \* SpecAgg: return values of add_config, in call order
    rlMedia,            \* SpecLabel: the IOMedia handed to zfs_boot_read_label
    rlResult,           \* SpecLabel: err, *config and *num_labels after the call
    loSize,             \* SpecOffset: mediaSize of the IOMedia (64-bit)
    loOffsets,          \* SpecOffset: offsets of the label reads issued so far
    gcOut,              \* SpecCfg: result of zfs_boot_get_configs
    pool_guid,          \* pools->pool_guid
    bdLog,              \* SpecDev: answers of the ZFSBootDevice, in call order
    pbPc,               \* SpecPublish: position after zfs_boot_free
    pbDev,              \* SpecPublish: state of the ZFSBootDevice 'bootdev'
    pbBuf,              \* SpecPublish: the zfs_bootfs buffer is allocated
    pbMedia,            \* SpecPublish: the host has published the child IOMedia
    pbTick,             \* SpecPublish: parity of the IOSleep(500) calls made
    pbRet,              \* SpecPublish: return value of zfs_boot_publish_bootfs
    fxNv,               \* SpecFix: the vdev nvlist handed to zfs_boot_fix_paths
    fxOut               \* SpecFix: return value and nvlist after the call

vars == <<initPc, pool_name, terminating, zfs_boot_pool_list, notifierReg,
          notifierField, lockState, lockOwner, cvState, disks, disksReleased,
          treeFreed, plFreed, plFreedActive, pools, names, cbPc, cbMedia,
          arrivals, wPc, wDisks, wNewSet, wIter, wCfg, wConfigs,
          pool_imported, fPc, uaf, lockMisuse, unlockedAccess,
          panicked, addLog, freedCfgs, addRet, rlMedia, rlResult, loSize,
          loOffsets, gcOut, pool_guid, bdLog, pbPc, pbDev, pbBuf, pbMedia,
          pbTick, pbRet, fxNv, fxOut>>

initVars == <<initPc, pool_name, zfs_boot_pool_list, notifierReg,
              notifierField, cvState>>
memVars == <<disksReleased, treeFreed, plFreed, plFreedActive>>
treeVars == <<pools, names>>
cbVars == <<cbPc, cbMedia, arrivals>>
wVars == <<wPc, wDisks, wNewSet, wIter, wCfg, wConfigs, pool_imported>>
lockVars == <<lockState, lockOwner, lockMisuse, panicked>>
devVars == <<bdLog, pbPc, pbDev, pbBuf, pbMedia, pbTick, pbRet>>
fixVars == <<fxNv, fxOut>>
fnVars == <<rlMedia, rlResult, loSize, loOffsets, gcOut, pool_guid, devVars,
            fixVars>>
aggVars == <<addLog, freedCfgs, addRet, fnVars>>

\* No ZFSBootDevice exists and zfs_boot_fix_paths has not been called.
DevIdle ==
    /\ bdLog = <<>>
    /\ pbPc = "idle"
    /\ pbDev = "none"
    /\ pbBuf = FALSE
    /\ pbMedia = FALSE
    /\ pbTick = 0
    /\ pbRet = NoRet
FixIdle == fxNv = NoNv /\ fxOut = NoFix

\* ------------------------------------------------------------ host objects
\* IOMedia properties read by zfs_boot_probe_media.
IsLeaf(m) == m # 3
MediaSize(m) == IF m = 4 THEN SPA_MINDEVSIZE - 1 ELSE SPA_MINDEVSIZE
HasBSDName(m) == m # 5

\* Mutant: the set stores a member again.
OSSet_setObject_mut(set, m) == Append(set, m)

\* OSSet::setObject: a member is stored once.
OSSet_setObject(set, m) ==
    IF \E i \in 1..Len(set) : set[i] = m THEN set ELSE Append(set, m)

RECURSIVE OSSet_merge(_, _)
OSSet_merge(set, other) ==
    IF other = <<>> THEN set
    ELSE OSSet_merge(OSSet_setObject(set, Head(other)), Tail(other))

\* ------------------------------------------------------------------- locks
\* Value a thread reads from pools->terminating; the content of freed memory
\* is arbitrary.
TermRead == IF plFreed > 0 THEN {0, ZFS_BOOT_ACTIVE, ZFS_BOOT_TERMINATING}
            ELSE {terminating}

Touch(actor) == uaf' = IF plFreed > 0 THEN uaf \cup {actor} ELSE uaf
TouchLock(actor) ==
    uaf' = IF plFreed > 0 \/ lockState = "destroyed"
           THEN uaf \cup {actor} ELSE uaf
TouchDisks(actor) ==
    uaf' = IF plFreed > 0 \/ disksReleased THEN uaf \cup {actor} ELSE uaf

\* mutex_enter: blocks while another thread owns the mutex; on a mutex that
\* is not initialized the kernel may panic or treat the zeroed mutex as free.
mutex_enter(self) ==
    \/ /\ lockState = "init"
       /\ lockOwner = NoOwner
       /\ lockOwner' = self
       /\ UNCHANGED <<lockState, lockMisuse, panicked>>
    \/ /\ lockState # "init"
       /\ lockMisuse' = TRUE
       /\ \/ panicked' = TRUE /\ UNCHANGED <<lockState, lockOwner>>
          \/ /\ lockOwner = NoOwner
             /\ lockOwner' = self
             /\ UNCHANGED <<lockState, panicked>>

\* mutex_exit: by a thread that does not own the mutex the kernel may panic,
\* release the mutex, or leave it as it is.
mutex_exit(self) ==
    \/ /\ lockState = "init"
       /\ lockOwner = self
       /\ lockOwner' = NoOwner
       /\ UNCHANGED <<lockState, lockMisuse, panicked>>
    \/ /\ ~(lockState = "init" /\ lockOwner = self)
       /\ lockMisuse' = TRUE
       /\ \/ panicked' = TRUE /\ UNCHANGED <<lockState, lockOwner>>
          \/ /\ lockOwner' \in {lockOwner, NoOwner}
             /\ UNCHANGED <<lockState, panicked>>

Holds(self) == lockState = "init" /\ lockOwner = self

\* Record a shared-state access made without the lock.
Access(self, what) ==
    unlockedAccess' = IF Holds(self) THEN unlockedAccess
                      ELSE unlockedAccess \cup {what}

\* ------------------------------------------------------------ zfs_boot_init
\* Mutant: zfs_boot_init goes on when zfs_boot_check_mountroot declined.
InitCheck_mut ==
    /\ initPc = "check"
    /\ \/ initPc' = "alloc" /\ UNCHANGED pool_name
       \/ initPc' = "alloc" /\ pool_name' \in {"tank", ""}
    /\ UNCHANGED <<terminating, zfs_boot_pool_list, notifierReg, notifierField,
                   cvState, disks, memVars, treeVars, cbVars, wVars, fPc, uaf,
                   unlockedAccess, lockVars, aggVars>>

\* zfs_boot_check_mountroot declines (uptime, no boot argument), or the pool
\* name it derives, the boot argument up to the first '/', may be empty.
InitCheck ==
    /\ initPc = "check"
    /\ \/ initPc' = "declined" /\ UNCHANGED pool_name
       \/ initPc' = "alloc" /\ pool_name' \in {"tank", ""}
    /\ UNCHANGED <<terminating, zfs_boot_pool_list, notifierReg, notifierField,
                   cvState, disks, memVars, treeVars, cbVars, wVars, fPc, uaf,
                   unlockedAccess, lockVars, aggVars>>

\* Allocate and fill the pool_list_t (OSSet::withCapacity may fail).
InitAlloc ==
    /\ initPc = "alloc"
    /\ \/ /\ initPc' = "register"
          /\ terminating' = ZFS_BOOT_ACTIVE
          /\ UNCHANGED memVars
       \/ /\ initPc' = "failed"
          /\ plFreed' = plFreed + 1
          /\ plFreedActive' = (plFreedActive \/ terminating = ZFS_BOOT_ACTIVE)
          /\ UNCHANGED <<terminating, disksReleased, treeFreed>>
    /\ UNCHANGED <<pool_name, zfs_boot_pool_list, notifierReg, notifierField,
                   cvState, disks, treeVars, cbVars, wVars, fPc, uaf,
                   unlockedAccess, lockVars, aggVars>>

\* addMatchingNotification: from here on the host delivers callbacks.
InitRegister ==
    /\ initPc = "register"
    /\ \/ /\ initPc' = "setnotifier"
          /\ notifierReg' = TRUE
          /\ UNCHANGED memVars
       \/ /\ initPc' = "failed"
          /\ disksReleased' = TRUE
          /\ plFreed' = plFreed + 1
          /\ plFreedActive' = (plFreedActive \/ terminating = ZFS_BOOT_ACTIVE)
          /\ UNCHANGED <<notifierReg, treeFreed>>
    /\ UNCHANGED <<pool_name, terminating, zfs_boot_pool_list, notifierField,
                   cvState, disks, treeVars, cbVars, wVars, fPc, uaf,
                   unlockedAccess, lockVars, aggVars>>

InitSetNotifier ==
    /\ initPc = "setnotifier"
    /\ initPc' = "mutexinit"
    /\ notifierField' = TRUE
    /\ UNCHANGED <<pool_name, terminating, zfs_boot_pool_list, notifierReg,
                   cvState, disks, memVars, treeVars, cbVars, wVars, fPc, uaf,
                   unlockedAccess, lockVars, aggVars>>

\* mutex_init and cv_init: the mutex is reset whatever its state was.
InitMutex ==
    /\ initPc = "mutexinit"
    /\ initPc' = "dispatch"
    /\ lockState' = "init"
    /\ lockOwner' = NoOwner
    /\ cvState' = "init"
    /\ UNCHANGED <<pool_name, terminating, zfs_boot_pool_list, notifierReg,
                   notifierField, disks, memVars, treeVars, cbVars, wVars, fPc,
                   uaf, unlockedAccess, lockMisuse, panicked, aggVars>>

\* taskq_dispatch(system_taskq, zfs_boot_import_thread, pools).
InitDispatch ==
    /\ initPc = "dispatch"
    /\ initPc' = "setglobal"
    /\ wPc' = "chk1"
    /\ UNCHANGED <<pool_name, terminating, zfs_boot_pool_list, notifierReg,
                   notifierField, cvState, disks, memVars, treeVars, cbVars,
                   wDisks, wNewSet, wIter, wCfg, wConfigs, pool_imported,
                   fPc, uaf, unlockedAccess, lockVars, aggVars>>

\* zfs_boot_pool_list = pools.
InitSetGlobal ==
    /\ initPc = "setglobal"
    /\ initPc' = "done"
    /\ zfs_boot_pool_list' = TRUE
    /\ UNCHANGED <<pool_name, terminating, notifierReg, notifierField, cvState,
                   disks, memVars, treeVars, cbVars, wVars, fPc, uaf,
                   unlockedAccess, lockVars, aggVars>>

zfs_boot_init ==
    /\ ~panicked
    /\ \/ InitCheck \/ InitAlloc \/ InitRegister \/ InitSetNotifier
       \/ InitMutex \/ InitDispatch \/ InitSetGlobal

\* ----------------------------------------------------- zfs_boot_probe_media
cbOther == <<initVars, memVars, treeVars, wVars, fPc, unlockedAccess, aggVars>>

InFlight(c) == cbPc[c] # "idle"

\* Move callback c to label l; on return ("done") 'media = 0' and the host
\* thread is free to deliver the next notification.
CbGoto(c, l) ==
    /\ cbPc' = [cbPc EXCEPT ![c] = IF l = "done" THEN "idle" ELSE l]
    /\ cbMedia' = IF l = "done" THEN [cbMedia EXCEPT ![c] = 0] ELSE cbMedia
    /\ UNCHANGED arrivals

\* The host invokes the callback for a published IOMediaBSDClient (the host
\* threads are interchangeable: the lowest-numbered free one delivers).
CbArrive(c) ==
    /\ cbPc[c] = "idle"
    /\ notifierReg
    /\ arrivals < MaxArrivals
    /\ arrivals' = arrivals + 1
    /\ \A b \in Callbacks : b < c => cbPc[b] # "idle"
    /\ \E m \in MediaIds : cbMedia' = [cbMedia EXCEPT ![c] = m]
    /\ cbPc' = [cbPc EXCEPT ![c] = "chk1"]
    /\ UNCHANGED <<terminating, disks, uaf, lockVars, cbOther>>

\* Mutant: the size of the media is not checked.
CbCheck1_mut(c) ==
    /\ cbPc[c] = "chk1"
    /\ \E t \in TermRead :
          CbGoto(c, IF \/ t # ZFS_BOOT_ACTIVE
                       \/ pool_name \in {NoName, ""}
                       \/ ~IsLeaf(cbMedia[c])
                       \/ ~HasBSDName(cbMedia[c])
                    THEN "done" ELSE "chk2")
    /\ Touch("callback")
    /\ UNCHANGED <<terminating, disks, lockVars, cbOther>>

\* "Abort early" 1, "Validate pool name", then the isLeaf, getSize and BSD
\* name checks on the IOMedia.
CbCheck1(c) ==
    /\ cbPc[c] = "chk1"
    /\ \E t \in TermRead :
          CbGoto(c, IF \/ t # ZFS_BOOT_ACTIVE
                       \/ pool_name \in {NoName, ""}
                       \/ ~IsLeaf(cbMedia[c])
                       \/ MediaSize(cbMedia[c]) < SPA_MINDEVSIZE
                       \/ ~HasBSDName(cbMedia[c])
                    THEN "done" ELSE "chk2")
    /\ Touch("callback")
    /\ UNCHANGED <<terminating, disks, lockVars, cbOther>>

\* "Abort early" 2.
CbCheck2(c) ==
    /\ cbPc[c] = "chk2"
    /\ \E t \in TermRead :
          CbGoto(c, IF t # ZFS_BOOT_ACTIVE THEN "done" ELSE "enter")
    /\ Touch("callback")
    /\ UNCHANGED <<terminating, disks, lockVars, cbOther>>

CbEnter(c) ==
    /\ cbPc[c] = "enter"
    /\ mutex_enter(c)
    /\ CbGoto(c, "chk3")
    /\ TouchLock("callback")
    /\ UNCHANGED <<terminating, disks, cbOther>>

\* "Abort early" 3, made with the lock taken.
CbCheck3(c) ==
    /\ cbPc[c] = "chk3"
    /\ \E t \in TermRead :
          CbGoto(c, IF t # ZFS_BOOT_ACTIVE THEN "abort" ELSE "insert")
    /\ Touch("callback")
    /\ UNCHANGED <<terminating, disks, lockVars, cbOther>>

CbAbort(c) ==
    /\ cbPc[c] = "abort"
    /\ mutex_exit(c)
    /\ CbGoto(c, "done")
    /\ TouchLock("callback")
    /\ UNCHANGED <<terminating, disks, cbOther>>

\* pools->disks->setObject(media).
CbInsert(c) ==
    /\ cbPc[c] = "insert"
    /\ disks' = OSSet_setObject(disks, cbMedia[c])
    /\ CbGoto(c, "exit")
    /\ TouchDisks("callback")
    /\ Access(c, <<"callback", "disks">>)
    /\ UNCHANGED <<terminating, lockVars, initVars, memVars, treeVars, wVars,
                   fPc, aggVars>>

CbExit(c) ==
    /\ cbPc[c] = "exit"
    /\ mutex_exit(c)
    /\ CbGoto(c, "signal")
    /\ TouchLock("callback")
    /\ UNCHANGED <<terminating, disks, cbOther>>

\* cv_signal(&pools->cv).
CbSignal(c) ==
    /\ cbPc[c] = "signal"
    /\ CbGoto(c, "done")
    /\ lockMisuse' = (lockMisuse \/ cvState # "init")
    /\ Touch("callback")
    /\ UNCHANGED <<terminating, disks, lockState, lockOwner, panicked,
                   cbOther>>

zfs_boot_probe_media(c) ==
    /\ ~panicked
    /\ \/ CbArrive(c) \/ CbCheck1(c) \/ CbCheck2(c) \/ CbEnter(c)
       \/ CbCheck3(c) \/ CbAbort(c) \/ CbInsert(c) \/ CbExit(c)
       \/ CbSignal(c)

\* ------------------------------------------------------------ zfs_boot_fini
finiOther == <<initVars, memVars, treeVars, cbVars, wVars, disks,
               unlockedAccess, lockState, lockOwner, panicked, aggVars>>

\* pools = zfs_boot_pool_list; return if null.
FiniFetch ==
    /\ fPc = "idle"
    /\ fPc' = IF zfs_boot_pool_list THEN "cas" ELSE "done"
    /\ UNCHANGED <<terminating, uaf, lockMisuse, finiOther>>

\* OSCompareAndSwap64(ZFS_BOOT_ACTIVE, ZFS_BOOT_TERMINATING, &pools->terminating).
FiniCas ==
    /\ fPc = "cas"
    /\ fPc' = "signal"
    /\ terminating' = IF plFreed = 0 /\ terminating = ZFS_BOOT_ACTIVE
                      THEN ZFS_BOOT_TERMINATING ELSE terminating
    /\ Touch("fini")
    /\ UNCHANGED <<lockMisuse, finiOther>>

\* cv_signal(&pools->cv).
FiniSignal ==
    /\ fPc = "signal"
    /\ fPc' = "done"
    /\ lockMisuse' = (lockMisuse \/ cvState # "init")
    /\ Touch("fini")
    /\ UNCHANGED <<terminating, finiOther>>

zfs_boot_fini == ~panicked /\ (FiniFetch \/ FiniCas \/ FiniSignal)

\* --------------------------------------------------- zfs_boot_add_config
\* Mutant: the pool walk never finds the pool.
FindPool_mut(list, pguid) == 0

\* Walk of pl->pools for pe_guid; 0 when the walk reaches NULL.
FindPool(list, pguid) ==
    IF \E i \in 1..Len(list) : list[i].pe_guid = pguid
    THEN CHOOSE i \in 1..Len(list) :
            /\ list[i].pe_guid = pguid
            /\ \A j \in 1..(i - 1) : list[j].pe_guid # pguid
    ELSE 0

\* Walk of pe->pe_vdevs for ve_guid; 0 when the walk reaches NULL.
FindVdev(list, top_guid) ==
    IF \E i \in 1..Len(list) : list[i].ve_guid = top_guid
    THEN CHOOSE i \in 1..Len(list) :
            /\ list[i].ve_guid = top_guid
            /\ \A j \in 1..(i - 1) : list[j].ve_guid # top_guid
    ELSE 0

\* Mutant: the txg walk never finds an entry.
FindConfig_mut(list, txg) == 0

\* Walk of ve->ve_configs for ce_txg; 0 when the walk reaches NULL.
FindConfig(list, txg) ==
    IF \E i \in 1..Len(list) : list[i].ce_txg = txg
    THEN CHOOSE i \in 1..Len(list) :
            /\ list[i].ce_txg = txg
            /\ \A j \in 1..(i - 1) : list[j].ce_txg # txg
    ELSE 0

\* Hot spare or level 2 cache device with a vdev guid.
IsSpareConfig(config) ==
    /\ config.pool_state # Absent
    /\ config.pool_state \in {POOL_STATE_SPARE, POOL_STATE_L2CACHE}
    /\ config.guid # Absent

\* Mutant: the 'txg == 0' test is left out.
IsIncompleteConfig_mut(config) ==
    \/ config.pool_guid = Absent
    \/ config.guid = Absent
    \/ config.top_guid = Absent
    \/ config.txg = Absent

\* Half-initialized label: a required field is missing or txg is 0.
IsIncompleteConfig(config) ==
    \/ config.pool_guid = Absent
    \/ config.guid = Absent
    \/ config.top_guid = Absent
    \/ config.txg = Absent
    \/ config.txg = 0

name_entry(path, guid, order, num_labels) ==
    [ne_name |-> path, ne_guid |-> guid, ne_order |-> order,
     ne_num_labels |-> num_labels]

\* Result: the lists after the call, the configs it nvlist_free'd, whether a
\* ConfigEntry now owns the config, and its return value.  New entries are linked at the head of their list.
zfs_boot_add_config(pl, path, order, num_labels, config) ==
    IF IsSpareConfig(config)
    THEN [pools |-> pl.pools,
          names |-> <<name_entry(path, config.guid, order, num_labels)>>
                    \o pl.names,
          freed |-> <<>>, stored |-> FALSE, ret |-> 0]
    ELSE IF IsIncompleteConfig(config)
    THEN [pools |-> pl.pools, names |-> pl.names, freed |-> <<config>>,
          stored |-> FALSE, ret |-> 0]
    ELSE
    LET pe0 == FindPool(pl.pools, config.pool_guid)
        pools1 == IF pe0 = 0
                  THEN <<[pe_guid |-> config.pool_guid, pe_vdevs |-> <<>>]>>
                       \o pl.pools
                  ELSE pl.pools
        pi == IF pe0 = 0 THEN 1 ELSE pe0
        vdevs0 == pools1[pi].pe_vdevs
        ve0 == FindVdev(vdevs0, config.top_guid)
        vdevs1 == IF ve0 = 0
                  THEN <<[ve_guid |-> config.top_guid, ve_configs |-> <<>>]>>
                       \o vdevs0
                  ELSE vdevs0
        vi == IF ve0 = 0 THEN 1 ELSE ve0
        configs0 == vdevs1[vi].ve_configs
        ce0 == FindConfig(configs0, config.txg)
        configs1 == IF ce0 = 0
                    THEN <<[ce_txg |-> config.txg, ce_config |-> config]>>
                         \o configs0
                    ELSE configs0
        vdevs2 == [vdevs1 EXCEPT ![vi].ve_configs = configs1]
    IN  [pools |-> [pools1 EXCEPT ![pi].pe_vdevs = vdevs2],
         names |-> <<name_entry(path, config.guid, order, num_labels)>>
                   \o pl.names,
         freed |-> IF ce0 = 0 THEN <<>> ELSE <<config>>,
         stored |-> ce0 = 0, ret |-> 0]

\* -------------------------------------------------- zfs_boot_get_configs
\* The config with the latest txg of a top-level vdev (the first one on ties,
\* since only a strictly greater txg replaces the choice).
RECURSIVE BestConfig(_, _, _)
BestConfig(configs, best_txg, tmp) ==
    IF configs = <<>> THEN tmp
    ELSE IF Head(configs).ce_txg > best_txg
         THEN BestConfig(Tail(configs), Head(configs).ce_txg,
                         Head(configs).ce_config)
         ELSE BestConfig(Tail(configs), best_txg, tmp)

\* best_txg of a top-level vdev: the latest txg among its configs.
BestTxg(configs) ==
    LET txgs == {0} \cup { configs[i].ce_txg : i \in 1..Len(configs) }
    IN  CHOOSE t \in txgs : \A u \in txgs : u <= t

\* Mutant: every top-level vdev replaces the pool-wide choice.
NewerTxg_mut(best_txg, max_txg) == TRUE

\* 'best_txg > max_txg': this vdev carries the latest view of the namespace.
NewerTxg(best_txg, max_txg) == best_txg > max_txg

\* Entries of the child array.  A slot of a kmem_alloc'ed array that was never
\* assigned holds whatever the memory held: NULL or a stray pointer.
NullChild == [type |-> "null", id |-> Absent, guid |-> 0, txg |-> 0, src |-> 0]
GarbageChild ==
    [type |-> "garbage", id |-> Absent, guid |-> 0, txg |-> 0, src |-> 0]
\* The ZPOOL_CONFIG_VDEV_TREE of a label config.
VdevTree(config) ==
    [type |-> "vdev", id |-> config.id, guid |-> config.top_guid,
     txg |-> config.txg, src |-> config.src]
\* The faked up hole / missing vdev: type, id c, guid 0.
Placeholder(type, c) ==
    [type |-> type, id |-> c, guid |-> 0, txg |-> 0, src |-> 0]

\* newchild = kmem_alloc(n * sizeof (nvlist_t *)): the old entries are copied,
\* the others are not initialized; junk is the set of indices at which the
\* fresh memory is not NULL.
GrowChild(child, n, junk) ==
    [c \in 1..n |-> IF c <= Len(child) THEN child[c]
                    ELSE IF (c - 1) \in junk THEN GarbageChild
                    ELSE NullChild]

\* zfs_boot_vdev_is_hole.
zfs_boot_vdev_is_hole(hole_array, id) == id \in hole_array

\* The loop over the top-level vdevs of one pool entry, from vdev i on.
RECURSIVE TopLevels(_, _, _, _)
TopLevels(vdevs, i, st, junk) ==
    IF i > Len(vdevs) THEN st
    ELSE
    LET best_txg == BestTxg(vdevs[i].ve_configs)
        tmp == BestConfig(vdevs[i].ve_configs, 0, st.tmp)
        newer == NewerTxg(best_txg, st.max_txg)
        valid == tmp.vdev_children # Absent
        config1 == IF newer
                   THEN [st.config EXCEPT
                           !.vdev_children = tmp.vdev_children,
                           !.hole_array = tmp.hole_array]
                   ELSE st.config
        config2 == IF st.config_seen THEN config1
                   ELSE [config1 EXCEPT
                           !.pool_guid = tmp.pool_guid,
                           !.pool_name = tmp.pool_name,
                           !.pool_txg = tmp.txg,
                           !.pool_state = tmp.pool_state]
        id == tmp.id
        child1 == IF id >= Len(st.child)
                  THEN GrowChild(st.child, id + 1, junk) ELSE st.child
    IN  TopLevels(vdevs, i + 1,
           [tmp |-> tmp,
            max_txg |-> IF newer THEN best_txg ELSE st.max_txg,
            max_id |-> IF newer
                       THEN (IF valid THEN tmp.vdev_children ELSE 0)
                       ELSE st.max_id,
            valid_top_config |-> IF newer THEN valid ELSE st.valid_top_config,
            hole_array |-> IF newer THEN tmp.hole_array ELSE st.hole_array,
            config |-> config2,
            config_seen |-> TRUE,
            child |-> [child1 EXCEPT ![id + 1] = VdevTree(tmp)]],
           junk)

\* Mutant: the child array is not cut to vdev_children.
NormalizeChild_mut(st, junk) ==
    IF st.valid_top_config /\ st.max_id > Len(st.child)
    THEN GrowChild(st.child, st.max_id, junk)
    ELSE st.child

\* "removing any extraneous devices that are beyond the valid range or adding
\* devices to the end of our array which appear to be missing".
NormalizeChild(st, junk) ==
    IF st.valid_top_config /\ st.max_id < Len(st.child)
    THEN SubSeq(st.child, 1, st.max_id)
    ELSE IF st.valid_top_config /\ st.max_id > Len(st.child)
         THEN GrowChild(st.child, st.max_id, junk)
         ELSE st.child

\* The hole pass followed by the missing pass over the child array.
FillChild(child, hole_array) ==
    [c \in 1..Len(child) |->
        IF child[c] = NullChild
        THEN IF hole_array # {} /\ zfs_boot_vdev_is_hole(hole_array, c - 1)
             THEN Placeholder("hole", c - 1)
             ELSE Placeholder("missing", c - 1)
        ELSE child[c]]

\* The undefined operations of one pool's pass: nvlist_free or nvlist_dup of
\* a slot that was never assigned, and kmem_free of the child array with a
\* size other than the allocated one.
PoolUB(st, child) ==
    (IF \E c \in (st.max_id + 1)..Len(st.child) :
           st.valid_top_config /\ st.child[c] = GarbageChild
     THEN {"free_stray"} ELSE {})
    \cup (IF \E c \in 1..Len(child) : child[c] = GarbageChild
          THEN {"dup_stray"} ELSE {})
    \cup (IF st.valid_top_config /\ st.max_id < Len(st.child)
          THEN {"free_size"} ELSE {})

NoPoolConfig ==
    [pool_guid |-> Absent, pool_name |-> NoName, pool_txg |-> Absent,
     pool_state |-> Absent, vdev_children |-> Absent, hole_array |-> {},
     children |-> <<>>, ub |-> {}]

\* The config built for one pool entry.
PoolConfig(pe, junk) ==
    LET st == TopLevels(pe.pe_vdevs, 1,
                  [tmp |-> NoConfig, max_txg |-> 0, max_id |-> 0,
                   valid_top_config |-> FALSE, hole_array |-> {},
                   config |-> NoPoolConfig, config_seen |-> FALSE,
                   child |-> <<>>], junk)
        child == FillChild(NormalizeChild(st, junk), st.hole_array)
    IN  [st.config EXCEPT !.children = child, !.ub = PoolUB(st, child)]

\* zfs_boot_get_configs(pl, B_TRUE): one config per pool entry, in list order.
\* Using a stray pointer either panics or reads what it points to (deref).
zfs_boot_get_configs(pl, junk, deref) ==
    LET configs == [i \in 1..Len(pl.pools) |-> PoolConfig(pl.pools[i], junk)]
        stray == \E i \in 1..Len(configs) :
                    configs[i].ub \cap {"free_stray", "dup_stray"} # {}
    IN  IF stray /\ deref = "panic"
        THEN [ret |-> "panic", configs |-> <<>>]
        ELSE [ret |-> "ok", configs |-> configs]

NoGetResult == [ret |-> "none", configs |-> <<>>]

\* The part of a pool config the import loop looks at.
PoolHeader(config) ==
    [pool_guid |-> config.pool_guid, pool_name |-> config.pool_name,
     pool_state |-> config.pool_state]

\* ------------------------------------------------------ 64-bit arithmetic
\* A uint64_t as three limbs <<hi, mid, lo>>: value = (hi * 2^22 + mid) * 2^22
\* + lo, with hi below 2^20.  Sums and differences wrap modulo 2^64.
LimbBase == 4194304
HiBase == 1048576

U64(hi, mid, lo) == <<hi, mid, lo>>

ToU64(n) == U64(0, n \div LimbBase, n % LimbBase)

Add64(x, y) ==
    LET lo == x[3] + y[3]
        mid == x[2] + y[2] + (lo \div LimbBase)
        hi == x[1] + y[1] + (mid \div LimbBase)
    IN  U64(hi % HiBase, mid % LimbBase, lo % LimbBase)

Sub64(x, y) ==
    LET lo == x[3] - y[3]
        b1 == IF lo < 0 THEN 1 ELSE 0
        mid == x[2] - y[2] - b1
        b2 == IF mid < 0 THEN 1 ELSE 0
        hi == x[1] - y[1] - b2
    IN  U64((hi + HiBase) % HiBase, (mid + LimbBase) % LimbBase,
            (lo + LimbBase) % LimbBase)

Lt64(x, y) ==
    \/ x[1] < y[1]
    \/ x[1] = y[1] /\ x[2] < y[2]
    \/ x[1] = y[1] /\ x[2] = y[2] /\ x[3] < y[3]

\* ---------------------------------------------------- zfs_boot_label_offset
VDEV_LABELS == 4
\* sizeof (vdev_label_t): 256 KiB.
labelsize == 262144

\* P2ALIGN_TYPED(mediaSize, labelsize, uint64_t): clear the bits below the
\* label size.
P2ALIGN(x) == U64(x[1], x[2], x[3] - (x[3] % labelsize))

\* Mutant: the trailing pair is placed as if the device held two labels.
zfs_boot_label_offset_mut(size, l) ==
    Add64(ToU64(l * labelsize),
          IF l < VDEV_LABELS \div 2 THEN ToU64(0)
          ELSE Sub64(size, ToU64((VDEV_LABELS \div 2) * labelsize)))

zfs_boot_label_offset(size, l) ==
    Add64(ToU64(l * labelsize),
          IF l < VDEV_LABELS \div 2 THEN ToU64(0)
          ELSE Sub64(size, ToU64(VDEV_LABELS * labelsize)))

\* ------------------------------------------------------ zfs_boot_read_label
\* An IOMedia as read_label sees it: getSize() is zero or not, whether the
\* memory descriptor and the open succeed, and for each of the four label
\* reads the IOReturn, whether nread reaches labelsize, whether the nvlist
\* unpacks, and the unpacked nvlist.
NoMedia == [size0 |-> TRUE, buffer |-> FALSE, open |-> FALSE, labels |-> <<>>]
NoResult == [err |-> 0 - 2, config |-> NoConfig, num_labels |-> 0]

\* Mutant: the txg of a pool device is not verified.
LabelAccepted_mut(copy) ==
    /\ copy.ret = "kIOReturnSuccess"
    /\ copy.full
    /\ copy.unpack
    /\ copy.config.guid # Absent /\ copy.config.guid # 0
    /\ copy.config.pool_state # Absent
    /\ copy.config.pool_state <= POOL_STATE_L2CACHE

\* The tests a label copy passes before it is counted: "Skip failed reads",
\* "Skip incomplete reads", "Skip invalid labels", "Verify GUID", "Verify vdev
\* state", "Verify txg number".
LabelAccepted(copy) ==
    /\ copy.ret = "kIOReturnSuccess"
    /\ copy.full
    /\ copy.unpack
    /\ copy.config.guid # Absent /\ copy.config.guid # 0
    /\ copy.config.pool_state # Absent
    /\ copy.config.pool_state <= POOL_STATE_L2CACHE
    /\ (copy.config.pool_state \notin {POOL_STATE_SPARE, POOL_STATE_L2CACHE}
        => copy.config.txg # Absent /\ copy.config.txg # 0)

\* Mutant: every accepted copy after the first is counted.
CountLabel_mut(expected_guid, guid, count) == count + 1

\* "Increment count for first match, or if guid matches".
CountLabel(expected_guid, guid, count) ==
    IF expected_guid # 0
    THEN IF expected_guid = guid THEN count + 1 ELSE count
    ELSE count + 1

\* "Read all four vdev labels", from copy l on.
RECURSIVE ReadLabels(_, _, _, _, _)
ReadLabels(labels, l, expected_config, expected_guid, count) ==
    IF l >= VDEV_LABELS
    THEN [err |-> 0, config |-> expected_config, num_labels |-> count]
    ELSE IF ~LabelAccepted(labels[l + 1])
         THEN ReadLabels(labels, l + 1, expected_config, expected_guid, count)
         ELSE LET guid == labels[l + 1].config.guid
              IN  ReadLabels(labels, l + 1,
                      IF expected_guid # 0 THEN expected_config
                      ELSE labels[l + 1].config,
                      IF expected_guid # 0 THEN expected_guid ELSE guid,
                      CountLabel(expected_guid, guid, count))

\* Mutant: *config is left at the nvlist unpacked last.
zfs_boot_read_label_mut(media, num_labels) ==
    IF media.size0 \/ ~media.buffer \/ ~media.open
    THEN [err |-> 0 - 1, config |-> NoConfig, num_labels |-> num_labels]
    ELSE [ReadLabels(media.labels, 0, NoConfig, 0, 0)
            EXCEPT !.config = media.labels[VDEV_LABELS].config]

\* The values of err, *config and *num_labels after the call; num_labels is
\* the caller's variable, which an early error return leaves as it was.
zfs_boot_read_label(media, num_labels) ==
    IF media.size0 \/ ~media.buffer \/ ~media.open
    THEN [err |-> 0 - 1, config |-> NoConfig, num_labels |-> num_labels]
    ELSE ReadLabels(media.labels, 0, NoConfig, 0, 0)

\* ------------------------------------------------------ zfs_boot_probe_disk
\* The guid zfs_boot_check_mountroot stores: the boot-argument guid is never
\* parsed.
target_pool_guid == 0

HasUUID(m) == m = 2
\* /private/var/run/disk/by-id/media-<UUID> when the media has a UUID,
\* /dev/<BSD name> otherwise.
PathOf(m) == IF HasUUID(m) THEN <<"/private/var/run/disk/by-id/media-", m>>
             ELSE <<"/dev/", m>>

LabelConfig(m, name, pg, state, txg) ==
    [pool_state |-> state, pool_name |-> name, pool_guid |-> pg,
     guid |-> 10 + m, top_guid |-> 10 + m, txg |-> txg, src |-> m,
     vdev_children |-> 1, hole_array |-> {}, id |-> 0]

GoodCopy(config) ==
    [ret |-> "kIOReturnSuccess", full |-> TRUE, unpack |-> TRUE,
     config |-> config]
\* A zeroed label: the read succeeds and nvlist_unpack fails.
ZeroedCopy ==
    [ret |-> "kIOReturnSuccess", full |-> TRUE, unpack |-> FALSE,
     config |-> NoConfig]

Opened(labels) ==
    [size0 |-> FALSE, buffer |-> TRUE, open |-> TRUE, labels |-> labels]

\* What a published media can hold when the worker reads it: a device that
\* cannot be opened, four zeroed labels, four labels of pool "tank", a torn
\* set of labels of a destroyed "tank", four labels of another pool.
MediaStates(m) ==
    { [size0 |-> FALSE, buffer |-> TRUE, open |-> FALSE, labels |-> <<>>],
      Opened([l \in 1..VDEV_LABELS |-> ZeroedCopy]),
      Opened([l \in 1..VDEV_LABELS |->
                 GoodCopy(LabelConfig(m, "tank", 7, POOL_STATE_ACTIVE, 2))]),
      Opened(<<GoodCopy(LabelConfig(m, "tank", 8, POOL_STATE_DESTROYED, 1)),
               ZeroedCopy,
               GoodCopy([LabelConfig(m, "tank", 8, POOL_STATE_DESTROYED, 1)
                            EXCEPT !.guid = 99]),
               GoodCopy(LabelConfig(m, "tank", 8, POOL_STATE_DESTROYED, 1))>>),
      Opened([l \in 1..VDEV_LABELS |->
                 GoodCopy(LabelConfig(m, "other", 9, POOL_STATE_ACTIVE, 2))]) }

\* 'int num_labels' of zfs_boot_probe_disk is not initialized.
UninitNumLabels == {0, 3}

\* What zfs_boot_read_label hands back for a media.
ReadOutcomes(m) ==
    { zfs_boot_read_label(media, n) :
        media \in MediaStates(m), n \in UninitNumLabels }

\* "Lookup pool name" / "Compare with pool_guid".
ConfigMatches(config) ==
    IF pool_name # NoName /\ config.pool_name # NoName
    THEN pool_name = config.pool_name
    ELSE IF pool_guid # 0
         THEN config.pool_guid # Absent /\ config.pool_guid = pool_guid
         ELSE FALSE

\* The locals 'config' and 'num_labels' of zfs_boot_probe_disk, whether the
\* config was passed to zfs_boot_add_config, and what became of the nvlist:
\* "held" (allocated, owned by the local only), "freed" or "stored" (owned by
\* a ConfigEntry).
NoProbe == [config |-> NoConfig, num_labels |-> 0, added |-> FALSE,
            fate |-> "none"]
Probe(r, fate) == [config |-> r.config, num_labels |-> r.num_labels,
                   added |-> FALSE, fate |-> fate]

\* -------------------------------------------------- zfs_boot_import_thread
wRest == <<initPc, pool_name, cvState, cbVars, fPc, uaf, aggVars>>
wLocals == <<wDisks, wNewSet, wIter, wCfg, wConfigs, pool_imported>>
wShared == <<terminating, zfs_boot_pool_list, notifierReg, notifierField,
             disks, memVars, treeVars>>

Goto(l) == wPc' = l

\* "Abort early" 1.
W_Check1 ==
    /\ wPc = "chk1"
    /\ Goto(IF terminating # ZFS_BOOT_ACTIVE THEN "out_unlocked" ELSE "newset")
    /\ UNCHANGED <<wLocals, wShared, lockVars, unlockedAccess, wRest>>

\* new_set = OSSet::withCapacity(1).
W_NewSet ==
    /\ wPc = "newset"
    /\ \/ wNewSet' = TRUE /\ Goto("enter0")
       \/ wNewSet' = FALSE /\ Goto("out_unlocked")
    /\ UNCHANGED <<wDisks, wIter, wCfg, wConfigs, pool_imported, wShared,
                   lockVars, unlockedAccess, wRest>>

\* mutex_enter sites: before the loop, after the probes, before next_locked,
\* and before the merge on the iterator failure path.
W_Enter ==
    /\ wPc \in {"enter0", "enter1", "enter2", "merge_enter"}
    /\ mutex_enter(WorkerId)
    /\ Goto(CASE wPc = "enter0" -> "head"
              [] wPc = "enter1" -> "count1"
              [] wPc = "enter2" -> "next_locked"
              [] wPc = "merge_enter" -> "merge")
    /\ UNCHANGED <<wLocals, wShared, unlockedAccess, wRest>>

\* Loop head: "Abort early" 2.
W_Head ==
    /\ wPc = "head"
    /\ Goto(IF terminating # ZFS_BOOT_ACTIVE THEN "out_locked" ELSE "count")
    /\ UNCHANGED <<wLocals, wShared, lockVars, unlockedAccess, wRest>>

\* Mutant: with no device pending the worker goes on to the import.
W_Count_mut ==
    /\ wPc = "count"
    /\ Goto(IF Len(disks) = 0 THEN "exit2" ELSE "swap")
    /\ Access(WorkerId, <<"worker", "disks">>)
    /\ UNCHANGED <<wLocals, wShared, lockVars, wRest>>

\* "Check for work" at the loop head.
W_Count ==
    /\ wPc = "count"
    /\ Goto(IF Len(disks) = 0 THEN "next_locked" ELSE "swap")
    /\ Access(WorkerId, <<"worker", "disks">>)
    /\ UNCHANGED <<wLocals, wShared, lockVars, wRest>>

\* Swap the full set with the new empty one.
W_Swap ==
    /\ wPc = "swap"
    /\ wDisks' = disks
    /\ disks' = <<>>
    /\ wNewSet' = FALSE
    /\ Goto("exit1")
    /\ Access(WorkerId, <<"worker", "disks">>)
    /\ UNCHANGED <<wIter, wCfg, wConfigs, pool_imported, terminating,
                   zfs_boot_pool_list, notifierReg, notifierField, memVars,
                   treeVars, lockVars, wRest>>

\* Mutant: out_locked goes to the teardown without mutex_exit.
W_ExitOut_mut ==
    /\ wPc \in {"exit1", "exit2", "out_locked"}
    /\ IF wPc = "out_locked"
       THEN UNCHANGED lockVars
       ELSE mutex_exit(WorkerId)
    /\ Goto(CASE wPc = "exit1" -> "iter"
              [] wPc = "exit2" -> "getcfg"
              [] wPc = "out_locked" -> "out_unlocked")
    /\ UNCHANGED <<wLocals, wShared, unlockedAccess, wRest>>

\* Mutant: the worker keeps the lock at its mutex_exit sites.
W_Exit_mut ==
    /\ wPc \in {"exit1", "exit2", "out_locked"}
    /\ Goto(CASE wPc = "exit1" -> "iter"
              [] wPc = "exit2" -> "getcfg"
              [] wPc = "out_locked" -> "out_unlocked")
    /\ UNCHANGED <<wLocals, wShared, lockVars, unlockedAccess, wRest>>

\* mutex_exit sites: after the swap, after the recheck, at out_locked.
W_Exit ==
    /\ wPc \in {"exit1", "exit2", "out_locked"}
    /\ mutex_exit(WorkerId)
    /\ Goto(CASE wPc = "exit1" -> "iter"
              [] wPc = "exit2" -> "getcfg"
              [] wPc = "out_locked" -> "out_unlocked")
    /\ UNCHANGED <<wLocals, wShared, unlockedAccess, wRest>>

\* OSCollectionIterator::withCollection(disks) may return NULL.
W_Iter ==
    /\ wPc = "iter"
    /\ \/ Goto("next") /\ wIter' = 0
       \/ Goto("merge_enter") /\ UNCHANGED wIter
    /\ UNCHANGED <<wDisks, wNewSet, wCfg, wConfigs, pool_imported, wShared,
                   lockVars, unlockedAccess, wRest>>

\* Merge disks back into pools->disks.
W_Merge ==
    /\ wPc = "merge"
    /\ disks' = OSSet_merge(disks, wDisks)
    /\ Goto("merge_exit")
    /\ Access(WorkerId, <<"worker", "disks">>)
    /\ UNCHANGED <<wLocals, terminating, zfs_boot_pool_list, notifierReg,
                   notifierField, memVars, treeVars, lockVars, wRest>>

\* mutex_exit, flush 'disks' into new_set, then 'continue': the loop head is
\* entered again with the lock released.
W_MergeExit ==
    /\ wPc = "merge_exit"
    /\ mutex_exit(WorkerId)
    /\ wDisks' = <<>>
    /\ wNewSet' = TRUE
    /\ Goto("head")
    /\ UNCHANGED <<wIter, wCfg, wConfigs, pool_imported, wShared,
                   unlockedAccess, wRest>>

\* zfs_boot_probe_disk has returned; iter->getNextObject(); after the last
\* one flush 'disks' into new_set.
W_Next ==
    /\ wPc = "next"
    /\ wCfg' = NoProbe
    /\ IF wIter < Len(wDisks)
       THEN /\ wIter' = wIter + 1
            /\ Goto("p_chk1")
            /\ UNCHANGED <<wDisks, wNewSet>>
       ELSE /\ wDisks' = <<>>
            /\ wNewSet' = TRUE
            /\ wIter' = 0
            /\ Goto("chk3")
    /\ UNCHANGED <<wConfigs, pool_imported, wShared, lockVars,
                   unlockedAccess, wRest>>

\* zfs_boot_probe_disk: "Abort early" 1 and "Validate pool name".
W_ProbeCheck1 ==
    /\ wPc = "p_chk1"
    /\ Goto(IF terminating # ZFS_BOOT_ACTIVE \/ pool_name \in {NoName, ""}
            THEN "next" ELSE "p_chk2")
    /\ UNCHANGED <<wLocals, wShared, lockVars, unlockedAccess, wRest>>

\* Mutant: zfs_boot_probe_disk reads the label whatever terminating is.
W_ProbeCheck2_mut ==
    /\ wPc = "p_chk2"
    /\ Goto("p_read")
    /\ UNCHANGED <<wLocals, wShared, lockVars, unlockedAccess, wRest>>

\* zfs_boot_probe_disk: "Abort early" 2, after the path has been built.
W_ProbeCheck2 ==
    /\ wPc = "p_chk2"
    /\ Goto(IF terminating # ZFS_BOOT_ACTIVE THEN "next" ELSE "p_read")
    /\ UNCHANGED <<wLocals, wShared, lockVars, unlockedAccess, wRest>>

\* Mutant: neither "Skip disks with no labels" nor "Skip non-matches".
W_ProbeRead_mut ==
    /\ wPc = "p_read"
    /\ \E r \in ReadOutcomes(wDisks[wIter]) :
          /\ Goto("p_chk3")
          /\ wCfg' = Probe(r, "held")
    /\ UNCHANGED <<wDisks, wNewSet, wIter, wConfigs, pool_imported, wShared,
                   lockVars, unlockedAccess, wRest>>

\* zfs_boot_read_label, "Skip disks with no labels", "Skip non-matches".
W_ProbeRead ==
    /\ wPc = "p_read"
    /\ \E r \in ReadOutcomes(wDisks[wIter]) :
          IF r.err # 0 \/ r.num_labels = 0 \/ r.config = NoConfig
          THEN Goto("next") /\ wCfg' = NoProbe
          ELSE IF ~ConfigMatches(r.config)
          THEN Goto("next") /\ wCfg' = Probe(r, "freed")
          ELSE Goto("p_chk3") /\ wCfg' = Probe(r, "held")
    /\ UNCHANGED <<wDisks, wNewSet, wIter, wConfigs, pool_imported, wShared,
                   lockVars, unlockedAccess, wRest>>

\* zfs_boot_probe_disk: "Abort early" 3 (goto out, config is left as it is).
W_ProbeCheck3 ==
    /\ wPc = "p_chk3"
    /\ Goto(IF terminating # ZFS_BOOT_ACTIVE THEN "next" ELSE "p_add")
    /\ UNCHANGED <<wCfg, wDisks, wNewSet, wIter, wConfigs, pool_imported, wShared,
                   lockVars, unlockedAccess, wRest>>

\* zfs_boot_add_config(pools, path, 1, num_labels, config).
W_ProbeAdd ==
    /\ wPc = "p_add"
    /\ LET r == zfs_boot_add_config([pools |-> pools, names |-> names],
                                    PathOf(wDisks[wIter]), 1,
                                    wCfg.num_labels, wCfg.config)
       IN  /\ pools' = r.pools
           /\ names' = r.names
           /\ wCfg' = [wCfg EXCEPT !.added = TRUE,
                                   !.fate = IF r.freed # <<>> THEN "freed"
                                            ELSE IF r.stored THEN "stored"
                                            ELSE "held"]
    /\ Goto("next")
    /\ Access(WorkerId, <<"worker", "tree">>)
    /\ UNCHANGED <<wDisks, wNewSet, wIter, wConfigs, pool_imported,
                   terminating, zfs_boot_pool_list, notifierReg, notifierField,
                   disks, memVars, lockVars, wRest>>

\* "Abort early" 3 of the thread, after the probes.
W_Check3 ==
    /\ wPc = "chk3"
    /\ Goto(IF terminating # ZFS_BOOT_ACTIVE THEN "out_unlocked" ELSE "enter1")
    /\ UNCHANGED <<wLocals, wShared, lockVars, unlockedAccess, wRest>>

\* "Check for work" after the probes: more disks available, looping.
W_Count1 ==
    /\ wPc = "count1"
    /\ Goto(IF Len(disks) # 0 THEN "head" ELSE "exit2")
    /\ Access(WorkerId, <<"worker", "disks">>)
    /\ UNCHANGED <<wLocals, wShared, lockVars, wRest>>

\* configs = zfs_boot_get_configs(pools, B_TRUE).
W_GetConfigs ==
    /\ wPc = "getcfg"
    /\ \E junk \in SUBSET JunkSlots, deref \in {"panic", "stale"} :
          LET r == zfs_boot_get_configs([pools |-> pools, names |-> names],
                                        junk, deref)
          IN  /\ wConfigs' = [i \in 1..Len(r.configs) |->
                                 PoolHeader(r.configs[i])]
              /\ panicked' = (r.ret = "panic")
    /\ Goto("chk4")
    /\ Access(WorkerId, <<"worker", "tree">>)
    /\ UNCHANGED <<wDisks, wNewSet, wIter, wCfg, pool_imported, wShared,
                   lockState, lockOwner, lockMisuse, wRest>>

\* "Abort early" 4.
W_Check4 ==
    /\ wPc = "chk4"
    /\ Goto(IF terminating # ZFS_BOOT_ACTIVE THEN "out_unlocked" ELSE "imp_next")
    /\ UNCHANGED <<wLocals, wShared, lockVars, unlockedAccess, wRest>>

\* Mutant: destroyed pools are not skipped.
W_ImportNext_mut ==
    /\ wPc = "imp_next"
    /\ Goto(IF wConfigs = <<>> THEN "enter2" ELSE "chk5")
    /\ UNCHANGED <<wLocals, wShared, lockVars, unlockedAccess, wRest>>

\* nvlist_next_nvpair(configs, elem) and the destroyed-pool check.
W_ImportNext ==
    /\ wPc = "imp_next"
    /\ IF wConfigs = <<>>
       THEN Goto("enter2") /\ UNCHANGED wConfigs
       ELSE IF Head(wConfigs).pool_state = POOL_STATE_DESTROYED
            THEN Goto("imp_next") /\ wConfigs' = Tail(wConfigs)
            ELSE Goto("chk5") /\ UNCHANGED wConfigs
    /\ UNCHANGED <<wDisks, wNewSet, wIter, wCfg, pool_imported, wShared,
                   lockVars, unlockedAccess, wRest>>

\* "Abort early" 5.
W_Check5 ==
    /\ wPc = "chk5"
    /\ Goto(IF terminating # ZFS_BOOT_ACTIVE THEN "out_unlocked" ELSE "try")
    /\ UNCHANGED <<wLocals, wShared, lockVars, unlockedAccess, wRest>>

\* newnv = spa_tryimport(nv).
W_TryImport ==
    /\ wPc = "try"
    /\ \/ Goto("import") /\ UNCHANGED wConfigs
       \/ Goto("imp_next") /\ wConfigs' = Tail(wConfigs)
    /\ UNCHANGED <<wDisks, wNewSet, wIter, wCfg, pool_imported, wShared,
                   lockVars, unlockedAccess, wRest>>

\* pool_imported = (spa_import(pools->pool_name, newnv, 0, 0) == 0).
W_Import ==
    /\ wPc = "import"
    /\ \E ok \in BOOLEAN :
          /\ pool_imported' = ok
          /\ Goto(IF ok THEN "out_unlocked" ELSE "imp_next")
    /\ wConfigs' = Tail(wConfigs)
    /\ UNCHANGED <<wDisks, wNewSet, wIter, wCfg, wShared, lockVars,
                   unlockedAccess, wRest>>

\* next_locked: "Check for work".
W_NextLocked ==
    /\ wPc = "next_locked"
    /\ Goto(IF Len(disks) # 0 THEN "head" ELSE "chk6")
    /\ Access(WorkerId, <<"worker", "disks">>)
    /\ UNCHANGED <<wLocals, wShared, lockVars, wRest>>

\* Mutant: the worker leaves when there is no work.
W_Check6_mut ==
    /\ wPc = "chk6"
    /\ Goto("out_locked")
    /\ UNCHANGED <<wLocals, wShared, lockVars, unlockedAccess, wRest>>

\* "Abort early" 6.
W_Check6 ==
    /\ wPc = "chk6"
    /\ Goto(IF terminating # ZFS_BOOT_ACTIVE THEN "out_locked" ELSE "wait")
    /\ UNCHANGED <<wLocals, wShared, lockVars, unlockedAccess, wRest>>

\* cv_timedwait_sig: the lock is dropped while the thread sleeps.
W_Wait ==
    /\ wPc = "wait"
    /\ mutex_exit(WorkerId)
    /\ Goto("sleeping")
    /\ UNCHANGED <<wLocals, wShared, unlockedAccess, wRest>>

\* A signal or the one second timeout resumes the thread with the lock held.
W_Wake ==
    /\ wPc = "sleeping"
    /\ mutex_enter(WorkerId)
    /\ Goto("head")
    /\ UNCHANGED <<wLocals, wShared, unlockedAccess, wRest>>

\* out_unlocked: "Cleanup new_set".
W_OutUnlocked ==
    /\ wPc = "out_unlocked"
    /\ wNewSet' = FALSE
    /\ Goto("f_fetch")
    /\ UNCHANGED <<wDisks, wIter, wCfg, wConfigs, pool_imported, wShared,
                   lockVars, unlockedAccess, wRest>>

\* After zfs_boot_free: publish the boot device when a pool was imported;
\* a publish error panics.
W_Post ==
    /\ wPc = "post"
    /\ Goto("done")
    /\ IF pool_imported
       THEN \E bootfs \in {0, 1}, error \in {0, 1} :
               panicked' = (bootfs # 0 /\ error # 0)
       ELSE UNCHANGED panicked
    /\ UNCHANGED <<wLocals, wShared, lockState, lockOwner, lockMisuse,
                   unlockedAccess, wRest>>

\* ------------------------------------------------------------ zfs_boot_free
\* Mutant: IONotifier::remove does not wait for the callbacks in flight.
NotifierDrained_mut == TRUE

\* IONotifier::remove returns once no callback is in flight.
NotifierDrained == \A c \in Callbacks : ~InFlight(c)

\* pools = zfs_boot_pool_list; return if null, else clear the global.
F_Fetch ==
    /\ wPc = "f_fetch"
    /\ IF zfs_boot_pool_list
       THEN Goto("f_setterm") /\ zfs_boot_pool_list' = FALSE
       ELSE Goto("post") /\ UNCHANGED zfs_boot_pool_list
    /\ UNCHANGED <<wLocals, terminating, notifierReg, notifierField, disks,
                   memVars, treeVars, lockVars, unlockedAccess, wRest>>

\* Mutant: zfs_boot_free leaves the flag as it found it.
F_SetTerminating_mut ==
    /\ wPc = "f_setterm"
    /\ Goto("f_remove")
    /\ UNCHANGED <<wLocals, terminating, zfs_boot_pool_list, notifierReg,
                   notifierField, disks, memVars, treeVars, lockVars,
                   unlockedAccess, wRest>>

\* pools->terminating = ZFS_BOOT_TERMINATING.
F_SetTerminating ==
    /\ wPc = "f_setterm"
    /\ terminating' = ZFS_BOOT_TERMINATING
    /\ Goto("f_remove")
    /\ UNCHANGED <<wLocals, zfs_boot_pool_list, notifierReg, notifierField,
                   disks, memVars, treeVars, lockVars, unlockedAccess, wRest>>

\* pools->notifier->remove(): no new callback is delivered ...
F_Remove ==
    /\ wPc = "f_remove"
    /\ IF notifierField
       THEN Goto("f_drain") /\ notifierReg' = FALSE
       ELSE Goto("f_destroy") /\ UNCHANGED notifierReg
    /\ UNCHANGED <<wLocals, terminating, zfs_boot_pool_list, notifierField,
                   disks, memVars, treeVars, lockVars, unlockedAccess, wRest>>

\* ... and it waits for the callbacks in flight; pools->notifier = 0.
F_Drain ==
    /\ wPc = "f_drain"
    /\ NotifierDrained
    /\ notifierField' = FALSE
    /\ Goto("f_destroy")
    /\ UNCHANGED <<wLocals, terminating, zfs_boot_pool_list, notifierReg,
                   disks, memVars, treeVars, lockVars, unlockedAccess, wRest>>

\* mutex_destroy(&pools->lock).
F_Destroy ==
    /\ wPc = "f_destroy"
    /\ lockState' = "destroyed"
    /\ lockOwner' = NoOwner
    /\ Goto("f_disks")
    /\ UNCHANGED <<wLocals, wShared, lockMisuse, panicked, unlockedAccess,
                   wRest>>

\* pools->disks->flushCollection(); release().
F_Disks ==
    /\ wPc = "f_disks"
    /\ disks' = <<>>
    /\ disksReleased' = TRUE
    /\ Goto("f_tree")
    /\ Access(WorkerId, <<"worker", "disks">>)
    /\ UNCHANGED <<wLocals, terminating, zfs_boot_pool_list, notifierReg,
                   notifierField, treeFreed, plFreed, plFreedActive, treeVars,
                   lockVars, wRest>>

\* Free the pool name, the pool / vdev / config lists and the name list.
F_Tree ==
    /\ wPc = "f_tree"
    /\ pools' = <<>>
    /\ names' = <<>>
    /\ treeFreed' = TRUE
    /\ Goto("f_free")
    /\ Access(WorkerId, <<"worker", "tree">>)
    /\ UNCHANGED <<wLocals, terminating, zfs_boot_pool_list, notifierReg,
                   notifierField, disks, disksReleased, plFreed, plFreedActive,
                   lockVars, wRest>>

\* kmem_free(pools, sizeof (pool_list_t)).
F_Free ==
    /\ wPc = "f_free"
    /\ plFreed' = plFreed + 1
    /\ plFreedActive' = (plFreedActive \/ terminating = ZFS_BOOT_ACTIVE)
    /\ Goto("post")
    /\ UNCHANGED <<wLocals, terminating, zfs_boot_pool_list, notifierReg,
                   notifierField, disks, disksReleased, treeFreed, treeVars,
                   lockVars, unlockedAccess, wRest>>

zfs_boot_free ==
    /\ ~panicked
    /\ \/ F_Fetch \/ F_SetTerminating \/ F_Remove \/ F_Drain
       \/ F_Destroy \/ F_Disks \/ F_Tree \/ F_Free

zfs_boot_import_thread ==
    /\ ~panicked
    /\ \/ W_Check1 \/ W_NewSet \/ W_Enter \/ W_Head \/ W_Count \/ W_Swap
       \/ W_Exit \/ W_Iter \/ W_Merge \/ W_MergeExit \/ W_Next
       \/ W_ProbeCheck1 \/ W_ProbeCheck2 \/ W_ProbeRead \/ W_ProbeCheck3
       \/ W_ProbeAdd \/ W_Check3 \/ W_Count1 \/ W_GetConfigs \/ W_Check4
       \/ W_ImportNext \/ W_Check5 \/ W_TryImport \/ W_Import
       \/ W_NextLocked \/ W_Check6 \/ W_Wait \/ W_Wake \/ W_OutUnlocked
       \/ W_Post

\* ------------------------------------------------------------ specification
Init ==
    /\ initPc = "check"
    /\ pool_name = NoName
    /\ terminating = 0
    /\ zfs_boot_pool_list = FALSE
    /\ notifierReg = FALSE
    /\ notifierField = FALSE
    /\ lockState = "uninit"
    /\ lockOwner = NoOwner
    /\ cvState = "uninit"
    /\ disks = <<>>
    /\ disksReleased = FALSE
    /\ treeFreed = FALSE
    /\ plFreed = 0
    /\ plFreedActive = FALSE
    /\ pools = <<>>
    /\ names = <<>>
    /\ cbPc = [c \in Callbacks |-> "idle"]
    /\ cbMedia = [c \in Callbacks |-> 0]
    /\ arrivals = 0
    /\ wPc = "idle"
    /\ wDisks = <<>>
    /\ wNewSet = FALSE
    /\ wIter = 0
    /\ wCfg = NoProbe
    /\ wConfigs = <<>>
    /\ pool_imported = FALSE
    /\ fPc = "idle"
    /\ uaf = {}
    /\ lockMisuse = FALSE
    /\ unlockedAccess = {}
    /\ panicked = FALSE
    /\ addLog = <<>>
    /\ freedCfgs = <<>>
    /\ addRet = <<>>
    /\ rlMedia = NoMedia
    /\ rlResult = NoResult
    /\ loSize = U64(0, 0, 0)
    /\ loOffsets = <<>>
    /\ gcOut = NoGetResult
    /\ pool_guid = target_pool_guid
    /\ DevIdle
    /\ FixIdle

Next ==
    \/ zfs_boot_init
    \/ \E c \in Callbacks : zfs_boot_probe_media(c)
    \/ zfs_boot_import_thread
    \/ zfs_boot_free
    \/ zfs_boot_fini

Spec == Init /\ [][Next]_vars

\* Scheduling: every thread that can take a step eventually takes one.  The
\* host is not obliged to publish a device, nor the caller to start
\* zfs_boot_fini.
CbSteps(c) ==
    /\ ~panicked
    /\ \/ CbCheck1(c) \/ CbCheck2(c) \/ CbEnter(c) \/ CbCheck3(c)
       \/ CbAbort(c) \/ CbInsert(c) \/ CbExit(c) \/ CbSignal(c)

FiniSteps == ~panicked /\ (FiniCas \/ FiniSignal)

FairSpec ==
    /\ Spec
    /\ WF_vars(zfs_boot_init)
    /\ WF_vars(zfs_boot_import_thread)
    /\ WF_vars(zfs_boot_free)
    /\ WF_vars(FiniSteps)
    /\ \A c \in Callbacks : WF_vars(CbSteps(c))

\* ------------------------------------------ specification of add_config
\* Decoded configs handed to add_config: complete ones for two pools with two
\* top-level vdevs and two txgs each, read from two devices; half-initialized
\* ones; spares and l2cache devices.
AggConfigs ==
    { [pool_state |-> POOL_STATE_ACTIVE, pool_name |-> "tank",
       pool_guid |-> pg, guid |-> 10 + s, top_guid |-> tg, txg |-> t,
       src |-> s, vdev_children |-> 2, hole_array |-> {}, id |-> tg - 21] :
         pg \in {7, 8}, tg \in {21, 22}, t \in {1, 2}, s \in {1, 2} }
    \cup
    { [pool_state |-> POOL_STATE_ACTIVE, pool_name |-> "tank",
       pool_guid |-> IF miss = "pool_guid" THEN Absent ELSE 7,
       guid |-> IF miss = "guid" THEN Absent ELSE 11,
       top_guid |-> IF miss = "top_guid" THEN Absent ELSE 21,
       txg |-> IF miss = "txg" THEN Absent ELSE IF miss = "zero" THEN 0 ELSE 1,
       src |-> 1, vdev_children |-> 2, hole_array |-> {}, id |-> 0] :
         miss \in {"pool_guid", "guid", "top_guid", "txg", "zero"} }
    \cup
    { [pool_state |-> st, pool_name |-> "tank", pool_guid |-> 7,
       guid |-> g, top_guid |-> 21, txg |-> 1, src |-> 2,
       vdev_children |-> 2, hole_array |-> {}, id |-> 0] :
         st \in {POOL_STATE_SPARE, POOL_STATE_L2CACHE}, g \in {Absent, 12} }

\* The program at rest inside the worker, at position pc, with an empty tree.
\* The worker at 'pc' with target pool 'name' / 'guid', iterating over 'set'.
ProbeInit(pc, name, guid, set) ==
    /\ initPc = "done"
    /\ pool_name = name
    /\ pool_guid = guid
    /\ terminating = ZFS_BOOT_ACTIVE
    /\ zfs_boot_pool_list = TRUE
    /\ notifierReg = TRUE
    /\ notifierField = TRUE
    /\ lockState = "init"
    /\ lockOwner = NoOwner
    /\ cvState = "init"
    /\ disks = <<>>
    /\ disksReleased = FALSE
    /\ treeFreed = FALSE
    /\ plFreed = 0
    /\ plFreedActive = FALSE
    /\ pools = <<>>
    /\ names = <<>>
    /\ cbPc = [c \in Callbacks |-> "idle"]
    /\ cbMedia = [c \in Callbacks |-> 0]
    /\ arrivals = 0
    /\ wPc = pc
    /\ wDisks = set
    /\ wNewSet = FALSE
    /\ wIter = Len(set)
    /\ wCfg = NoProbe
    /\ wConfigs = <<>>
    /\ pool_imported = FALSE
    /\ fPc = "idle"
    /\ uaf = {}
    /\ lockMisuse = FALSE
    /\ unlockedAccess = {}
    /\ panicked = FALSE

PureInit(pc) == ProbeInit(pc, "tank", target_pool_guid, <<>>)

AggIdle == addLog = <<>> /\ freedCfgs = <<>> /\ addRet = <<>>
LabelIdle == rlMedia = NoMedia /\ rlResult = NoResult
OffsetIdle == loSize = U64(0, 0, 0) /\ loOffsets = <<>>
CfgIdle == gcOut = NoGetResult

InitAgg ==
    /\ PureInit("p_add")
    /\ AggIdle
    /\ LabelIdle
    /\ OffsetIdle
    /\ CfgIdle
    /\ DevIdle
    /\ FixIdle

\* One call zfs_boot_add_config(pools, path, 1, num_labels, config).
AggAddConfig ==
    /\ Len(addLog) < MaxAdds
    /\ \E config \in AggConfigs :
          LET r == zfs_boot_add_config([pools |-> pools, names |-> names],
                                       PathOf(config.src), 1, config.src,
                                       config)
          IN  /\ pools' = r.pools
              /\ names' = r.names
              /\ addLog' = Append(addLog, config)
              /\ freedCfgs' = freedCfgs \o r.freed
              /\ addRet' = Append(addRet, r.ret)
    /\ UNCHANGED <<initVars, terminating, disks, memVars, cbVars, wVars, fPc,
                   uaf, unlockedAccess, lockVars, fnVars>>

NextAgg == AggAddConfig

SpecAgg == InitAgg /\ [][NextAgg]_vars

\* ------------------------------------------ specification of read_label
LabelKinds == {"readfail", "short", "zeroed", "noguid", "guid0", "nostate",
               "badstate", "notxg", "txg0", "A", "B", "spareA", "l2B"}

\* The nvlist a label copy of kind k at index l unpacks to.
KindConfig(k, l) ==
    [pool_state |-> CASE k = "nostate" -> Absent
                      [] k = "badstate" -> POOL_STATE_L2CACHE + 1
                      [] k = "spareA" -> POOL_STATE_SPARE
                      [] k = "l2B" -> POOL_STATE_L2CACHE
                      [] OTHER -> POOL_STATE_ACTIVE,
     pool_name |-> "tank", pool_guid |-> 7,
     guid |-> CASE k = "noguid" -> Absent
                [] k = "guid0" -> 0
                [] k \in {"B", "l2B"} -> 12
                [] OTHER -> 11,
     top_guid |-> 21,
     txg |-> CASE k \in {"notxg", "spareA"} -> Absent
               [] k \in {"txg0", "l2B"} -> 0
               [] OTHER -> 2,
     src |-> l, vdev_children |-> 1, hole_array |-> {}, id |-> 0]

KindCopy(k, l) ==
    [ret |-> IF k = "readfail" THEN "kIOReturnError" ELSE "kIOReturnSuccess",
     full |-> k # "short",
     unpack |-> k \notin {"readfail", "short", "zeroed"},
     config |-> IF k \in {"readfail", "short", "zeroed"} THEN NoConfig
                ELSE KindConfig(k, l)]

LabelMedia ==
    { Opened([l \in 1..VDEV_LABELS |-> KindCopy(ks[l], l - 1)]) :
         ks \in [1..VDEV_LABELS -> LabelKinds] }
    \cup
    { [size0 |-> z, buffer |-> b, open |-> o,
       labels |-> [l \in 1..VDEV_LABELS |-> KindCopy("A", l - 1)]] :
         z, b, o \in BOOLEAN }

InitLabel ==
    /\ PureInit("p_read")
    /\ AggIdle
    /\ rlMedia \in LabelMedia
    /\ rlResult = NoResult
    /\ OffsetIdle
    /\ CfgIdle
    /\ DevIdle
    /\ FixIdle

\* err = zfs_boot_read_label(pools->zfs_hl, media, &config, &num_labels).
ReadLabel ==
    /\ rlResult = NoResult
    /\ \E n \in UninitNumLabels :
          rlResult' = zfs_boot_read_label(rlMedia, n)
    /\ UNCHANGED <<initVars, terminating, disks, memVars, treeVars, cbVars,
                   wVars, fPc, uaf, unlockedAccess, lockVars, addLog,
                   freedCfgs, addRet, rlMedia, loSize, loOffsets, gcOut,
                   pool_guid, devVars, fixVars>>

NextLabel == ReadLabel

SpecLabel == InitLabel /\ [][NextLabel]_vars

\* --------------------------------------- specification of the label offsets
\* Media sizes: zero, below and around SPA_MINDEVSIZE, label-aligned and not,
\* up to 2^64 - 1.
MediaSizes ==
    { U64(hi, mid, lo) :
        hi \in {0, HiBase - 1},
        mid \in {0, 15, 16, 17, LimbBase - 1},
        lo \in {0, 1, labelsize - 1, labelsize, LimbBase - 1} }

\* zfs_boot_probe_media: 'mediaSize < SPA_MINDEVSIZE' rejects the device.
PassesSizeFilter(size) == ~Lt64(size, ToU64(SPA_MINDEVSIZE))

InitOffset ==
    /\ PureInit("p_read")
    /\ AggIdle
    /\ LabelIdle
    /\ loSize \in MediaSizes
    /\ loOffsets = <<>>
    /\ CfgIdle
    /\ DevIdle
    /\ FixIdle

\* The next label read of zfs_boot_read_label on a media the watcher let
\* through: media->read(zfs_hl, zfs_boot_label_offset(size, l), ...).
LabelOffsetRead ==
    /\ PassesSizeFilter(loSize)
    /\ loSize # U64(0, 0, 0)
    /\ Len(loOffsets) < VDEV_LABELS
    /\ loOffsets' = Append(loOffsets,
           zfs_boot_label_offset(P2ALIGN(loSize), Len(loOffsets)))
    /\ UNCHANGED <<initVars, terminating, disks, memVars, treeVars, cbVars,
                   wVars, fPc, uaf, unlockedAccess, lockVars, addLog,
                   freedCfgs, addRet, rlMedia, rlResult, loSize, gcOut,
                   pool_guid, devVars, fixVars>>

NextOffset == LabelOffsetRead

SpecOffset == InitOffset /\ [][NextOffset]_vars

\* ------------------------------------------ specification of get_configs
\* Label configs of one pool: top-level vdev tg has id tg - 21; a label says
\* nothing about vdev_children, or counts one vdev less than exist, or all of
\* them with a hole at id 1.
CfgConfigs ==
    { [pool_state |-> POOL_STATE_ACTIVE, pool_name |-> "tank", pool_guid |-> 7,
       guid |-> tg - 10, top_guid |-> tg, txg |-> t, src |-> tg - 20,
       vdev_children |-> ns[1], hole_array |-> ns[2], id |-> tg - 21] :
         tg \in 21..(20 + MaxChildren), t \in {1, 2},
         ns \in {<<Absent, {}>>, <<MaxChildren - 1, {}>>,
                 <<MaxChildren, {1}>>} }

InitCfg ==
    /\ PureInit("p_add")
    /\ AggIdle
    /\ LabelIdle
    /\ OffsetIdle
    /\ CfgIdle
    /\ DevIdle
    /\ FixIdle

\* zfs_boot_add_config(pools, path, 1, num_labels, config) for a probed disk.
CfgAdd ==
    /\ gcOut = NoGetResult
    /\ Len(addLog) < MaxCfgAdds
    /\ \E config \in CfgConfigs :
          LET r == zfs_boot_add_config([pools |-> pools, names |-> names],
                                       PathOf(config.src), 1, VDEV_LABELS,
                                       config)
          IN  /\ pools' = r.pools
              /\ names' = r.names
              /\ addLog' = Append(addLog, config)
              /\ freedCfgs' = freedCfgs \o r.freed
              /\ addRet' = Append(addRet, r.ret)
    /\ UNCHANGED <<initVars, terminating, disks, memVars, cbVars, wVars, fPc,
                   uaf, unlockedAccess, lockVars, fnVars>>

\* configs = zfs_boot_get_configs(pools, B_TRUE).
CfgGet ==
    /\ gcOut = NoGetResult
    /\ pools # <<>>
    /\ \E junk \in SUBSET JunkSlots, deref \in {"panic", "stale"} :
          gcOut' = zfs_boot_get_configs([pools |-> pools, names |-> names],
                                        junk, deref)
    /\ UNCHANGED <<initVars, terminating, disks, memVars, treeVars, cbVars,
                   wVars, fPc, uaf, unlockedAccess, lockVars, addLog,
                   freedCfgs, addRet, rlMedia, rlResult, loSize, loOffsets,
                   pool_guid, devVars, fixVars>>

NextCfg == CfgAdd \/ CfgGet

SpecCfg == InitCfg /\ [][NextCfg]_vars

\* ------------------------------ specification of the match in probe_disk
\* zfs_boot_probe_disk(pools, media) for one media and the targets a
\* pool_list_t can name: no name, an empty name or "tank", and no guid or the
\* guid of one of the pools on the media.
TargetNames == {NoName, "", "tank"}
TargetGuids == {0, 7, 9}

InitMatch ==
    /\ \E name \in TargetNames, guid \in TargetGuids, m \in MediaIds :
          ProbeInit("p_chk1", name, guid, <<m>>)
    /\ AggIdle
    /\ LabelIdle
    /\ OffsetIdle
    /\ CfgIdle
    /\ DevIdle
    /\ FixIdle

NextMatch ==
    W_ProbeCheck1 \/ W_ProbeCheck2 \/ W_ProbeRead \/ W_ProbeCheck3 \/ W_ProbeAdd

SpecMatch == InitMatch /\ [][NextMatch]_vars

\* ------------------------------------------------------------ ZFSBootDevice
Zero64 == U64(0, 0, 0)
DigitBase == 2048
\* The six 11-bit digits of a 64-bit value, least significant first.
Digits64(x) ==
    <<x[3] % DigitBase, x[3] \div DigitBase, x[2] % DigitBase,
      x[2] \div DigitBase, x[1] % DigitBase, x[1] \div DigitBase>>

\* Sum of the digit products a[i] * b[k + 1 - i] for i in from..k.
RECURSIVE Column(_, _, _, _)
Column(a, b, k, from) ==
    IF from > k THEN 0 ELSE a[from] * b[k + 1 - from] + Column(a, b, k, from + 1)

\* Carry out of digit k of the product.
RECURSIVE Carry(_, _, _)
Carry(a, b, k) ==
    IF k = 0 THEN 0 ELSE (Column(a, b, k, 1) + Carry(a, b, k - 1)) \div DigitBase

\* x * y modulo 2^64.
Mul64(x, y) ==
    LET a == Digits64(x)
        b == Digits64(y)
        d(k) == (Column(a, b, k, 1) + Carry(a, b, k - 1)) % DigitBase
    IN  U64((d(5) + d(6) * DigitBase) % HiBase, d(3) + d(4) * DigitBase,
            d(1) + d(2) * DigitBase)

\* 'x << n' on int operands whose result stays below 2^31.
ShiftLeft(x, n) == x * 2^n

\* #define ZFS_BOOT_DEV_BSIZE (UInt64)(1<<9)
ZFS_BOOT_DEV_BSIZE == ToU64(ShiftLeft(1, 9))
\* #define ZFS_BOOT_DEV_BCOUNT (UInt64)(2<<29)
ZFS_BOOT_DEV_BCOUNT == ToU64(ShiftLeft(2, 29))

\* ZFSBootDevice::reportBlockSize(UInt64 *blockSize).
reportBlockSize(blockSize) ==
    IF blockSize = "null" THEN [ret |-> "kIOReturnError", out |-> <<>>]
    ELSE [ret |-> "kIOReturnSuccess", out |-> <<ZFS_BOOT_DEV_BSIZE>>]

\* ZFSBootDevice::reportMaxValidBlock(UInt64 *maxBlock).
reportMaxValidBlock(maxBlock) ==
    IF maxBlock = "null" THEN [ret |-> "kIOReturnError", out |-> <<>>]
    ELSE [ret |-> "kIOReturnSuccess",
          out |-> <<Sub64(ZFS_BOOT_DEV_BCOUNT, ToU64(1))>>]

\* ZFSBootDevice::doGetFormatCapacities(capacities, capacitiesMaxCount): the
\* count returned is always 1.
doGetFormatCapacities(capacities, capacitiesMaxCount) ==
    [count |-> 1,
     out |-> IF capacities # "null" /\ capacitiesMaxCount > 0
             THEN <<Mul64(ZFS_BOOT_DEV_BSIZE, ZFS_BOOT_DEV_BCOUNT)>>
             ELSE <<>>]

\* -------------------------------- specification of publishing the boot device
\* Everything but the state of the boot device and the panic flag.
pbRest == <<initVars, terminating, disks, memVars, treeVars, cbVars, wVars,
            fPc, uaf, unlockedAccess, lockState, lockOwner, lockMisuse,
            addLog, freedCfgs, addRet, rlMedia, rlResult, loSize, loOffsets,
            gcOut, pool_guid, fixVars>>

\* The worker has returned from zfs_boot_free.
InitPublish ==
    /\ initPc = "done"
    /\ pool_name = "tank"
    /\ pool_guid = 0
    /\ terminating = ZFS_BOOT_TERMINATING
    /\ zfs_boot_pool_list = FALSE
    /\ notifierReg = FALSE
    /\ notifierField = FALSE
    /\ lockState = "destroyed"
    /\ lockOwner = NoOwner
    /\ cvState = "init"
    /\ disks = <<>>
    /\ disksReleased = TRUE
    /\ treeFreed = TRUE
    /\ plFreed = 1
    /\ plFreedActive = FALSE
    /\ pools = <<>>
    /\ names = <<>>
    /\ cbPc = [c \in Callbacks |-> "idle"]
    /\ cbMedia = [c \in Callbacks |-> 0]
    /\ arrivals = 1
    /\ wPc = "post"
    /\ wDisks = <<>>
    /\ wNewSet = FALSE
    /\ wIter = 0
    /\ wCfg = NoProbe
    /\ wConfigs = <<>>
    /\ pool_imported \in BOOLEAN
    /\ fPc = "idle"
    /\ uaf = {}
    /\ lockMisuse = FALSE
    /\ unlockedAccess = {<<"worker", "disks">>, <<"worker", "tree">>}
    /\ panicked = FALSE
    /\ AggIdle
    /\ LabelIdle
    /\ OffsetIdle
    /\ CfgIdle
    /\ DevIdle
    /\ FixIdle

PbGoto(l) == pbPc' = l
\* return (e) from zfs_boot_publish_bootfs.
PbReturn(e) == pbPc' = "ret" /\ pbRet' = e

\* "Get bootfs and publish IOMedia": spa_next(NULL) and spa_bootfs(spa).
PbBootfs ==
    /\ pbPc = "idle"
    /\ \E spa \in BOOLEAN, fs \in {0, 1} :
          LET bootfs == IF spa THEN fs ELSE 0
          IN  PbGoto(IF pool_imported /\ bootfs # 0 THEN "alloc" ELSE "done")
    /\ UNCHANGED <<pbRest, panicked, bdLog, pbDev, pbBuf, pbMedia, pbTick,
                   pbRet>>

\* zfs_bootfs = kmem_alloc(len, KM_SLEEP).
PbAlloc ==
    /\ pbPc = "alloc"
    /\ \/ pbBuf' = TRUE /\ PbGoto("dsname") /\ UNCHANGED pbRet
       \/ UNCHANGED pbBuf /\ PbReturn("ENOMEM")
    /\ UNCHANGED <<pbRest, panicked, bdLog, pbDev, pbMedia, pbTick>>

\* dsl_dsobj_to_dsname(spa_name(spa), spa_bootfs(spa), zfs_bootfs).
PbDsname ==
    /\ pbPc = "dsname"
    /\ \/ PbGoto("new") /\ UNCHANGED <<pbBuf, pbRet>>
       \/ pbBuf' = FALSE /\ PbReturn("ENODEV")
    /\ UNCHANGED <<pbRest, panicked, bdLog, pbDev, pbMedia, pbTick>>

\* bootdev = new ZFSBootDevice.
PbNew ==
    /\ pbPc = "new"
    /\ \/ pbDev' = "created" /\ PbGoto("init") /\ UNCHANGED <<pbBuf, pbRet>>
       \/ UNCHANGED pbDev /\ pbBuf' = FALSE /\ PbReturn("ENOMEM")
    /\ UNCHANGED <<pbRest, panicked, bdLog, pbMedia, pbTick>>

\* bootdev->init(0).
PbInit ==
    /\ pbPc = "init"
    /\ \/ pbDev' = "inited" /\ PbGoto("setname") /\ UNCHANGED <<pbBuf, pbRet>>
       \/ pbDev' = "freed" /\ pbBuf' = FALSE /\ PbReturn("ENXIO")
    /\ UNCHANGED <<pbRest, panicked, bdLog, pbMedia, pbTick>>

\* bootdev->setDatasetName(zfs_bootfs); kmem_free(zfs_bootfs, len).
PbSetName ==
    /\ pbPc = "setname"
    /\ pbBuf' = FALSE
    /\ \/ PbGoto("attach") /\ UNCHANGED <<pbDev, pbRet>>
       \/ pbDev' = "freed" /\ PbReturn("ENXIO")
    /\ UNCHANGED <<pbRest, panicked, bdLog, pbMedia, pbTick>>

\* bootdev->attach(zfs_hl).
PbAttach ==
    /\ pbPc = "attach"
    /\ \/ pbDev' = "attached" /\ PbGoto("start") /\ UNCHANGED pbRet
       \/ pbDev' = "freed" /\ PbReturn("ENXIO")
    /\ UNCHANGED <<pbRest, panicked, bdLog, pbBuf, pbMedia, pbTick>>

\* bootdev->start(zfs_hl).
PbStart ==
    /\ pbPc = "start"
    /\ \/ pbDev' = "started" /\ PbGoto("register") /\ UNCHANGED pbRet
       \/ pbDev' = "freed" /\ PbReturn("ENXIO")
    /\ UNCHANGED <<pbRest, panicked, bdLog, pbBuf, pbMedia, pbTick>>

\* bootdev->retain(); registerService(kIOServiceAsynchronous); the cast to
\* IOBlockStorageDevice of a ZFSBootDevice succeeds.
PbRegister ==
    /\ pbPc = "register"
    /\ pbDev' = "registered"
    /\ PbGoto("poll")
    /\ UNCHANGED <<pbRest, panicked, bdLog, pbBuf, pbMedia, pbTick, pbRet>>

\* do { media = bootdev->getClient()->getClient();
\*      if (!media) { IOSleep(500); continue; } ... } while (!media);
PbPoll ==
    /\ pbPc = "poll"
    /\ IF pbMedia
       THEN PbGoto("resource") /\ UNCHANGED pbTick
       ELSE pbTick' = 1 - pbTick /\ UNCHANGED pbPc
    /\ UNCHANGED <<pbRest, panicked, bdLog, pbDev, pbBuf, pbMedia, pbRet>>

\* IOService::getResourceService(); panic("missing resource IOService").
PbResource ==
    /\ pbPc = "resource"
    /\ \/ PbGoto("uuid") /\ UNCHANGED panicked
       \/ PbGoto("panic_resource") /\ panicked' = TRUE
    /\ UNCHANGED <<pbRest, bdLog, pbDev, pbBuf, pbMedia, pbTick, pbRet>>

\* The boot-uuid property of the resource service; panic("missing UUID");
\* else stamp the media, register it and return 0.
PbUuid ==
    /\ pbPc = "uuid"
    /\ \/ PbReturn("0") /\ UNCHANGED panicked
       \/ PbGoto("panic_uuid") /\ panicked' = TRUE /\ UNCHANGED pbRet
    /\ UNCHANGED <<pbRest, bdLog, pbDev, pbBuf, pbMedia, pbTick>>

\* if (error != 0) panic("%s publish bootfs error %d\n", ...).
PbCheckError ==
    /\ pbPc = "ret"
    /\ IF pbRet # "0"
       THEN PbGoto("panic_error") /\ panicked' = TRUE
       ELSE PbGoto("done") /\ UNCHANGED panicked
    /\ UNCHANGED <<pbRest, bdLog, pbDev, pbBuf, pbMedia, pbTick, pbRet>>

\* The host's block storage driver has matched the registered device and
\* published its IOMedia.
HostPublishMedia ==
    /\ pbDev = "registered"
    /\ ~pbMedia
    /\ pbMedia' = TRUE
    /\ UNCHANGED <<pbRest, panicked, bdLog, pbPc, pbDev, pbBuf, pbTick, pbRet>>

\* The host asks the registered device for its geometry.
HostQuery(q) ==
    /\ pbDev = "registered"
    /\ Len(bdLog) < MaxQueries
    /\ bdLog' = Append(bdLog, q)
    /\ UNCHANGED <<pbRest, panicked, pbPc, pbDev, pbBuf, pbMedia, pbTick,
                   pbRet>>

HostReportBlockSize ==
    \E p \in {"null", "ptr"} :
       HostQuery([op |-> "reportBlockSize", r |-> reportBlockSize(p)])

HostReportMaxValidBlock ==
    \E p \in {"null", "ptr"} :
       HostQuery([op |-> "reportMaxValidBlock", r |-> reportMaxValidBlock(p)])

HostGetFormatCapacities ==
    \E p \in {"null", "ptr"}, n \in 0..2 :
       HostQuery([op |-> "doGetFormatCapacities",
                  r |-> doGetFormatCapacities(p, n)])

zfs_boot_publish_bootfs ==
    \/ PbAlloc \/ PbDsname \/ PbNew \/ PbInit \/ PbSetName \/ PbAttach
    \/ PbStart \/ PbRegister \/ PbPoll \/ PbResource \/ PbUuid

PbWorker == ~panicked /\ (PbBootfs \/ zfs_boot_publish_bootfs \/ PbCheckError)

PbHost ==
    /\ ~panicked
    /\ \/ HostPublishMedia \/ HostReportBlockSize \/ HostReportMaxValidBlock
       \/ HostGetFormatCapacities

NextPublish == PbWorker \/ PbHost

SpecPublish == InitPublish /\ [][NextPublish]_vars

\* The worker thread is scheduled; the host may never publish the media.
FairPublish == SpecPublish /\ WF_vars(PbWorker)

\* ------------------------------------------------------ zfs_boot_fix_paths
\* A vdev nvlist: a leaf has guid, path (<<>> when ZPOOL_CONFIG_PATH is not
\* set) and devid (NoName when not set); an interior vdev has children.
NoPath == <<>>
Leaf(guid, path, devid) ==
    [leaf |-> TRUE, guid |-> guid, path |-> path, devid |-> devid,
     children |-> <<>>]
Interior(guid, children) ==
    [leaf |-> FALSE, guid |-> guid, path |-> NoPath, devid |-> NoName,
     children |-> children]

\* zfs_boot_get_devid: "XXX Unavailable interface", always NULL.
zfs_boot_get_devid(path) == NoName

\* Mutant: the entry with fewer labels is preferred.
RECURSIVE BestName_mut(_, _, _, _, _)
BestName_mut(nl, i, guid, path, best) ==
    IF i > Len(nl) THEN best
    ELSE IF nl[i].ne_guid # guid THEN BestName_mut(nl, i + 1, guid, path, best)
    ELSE IF path = NoPath THEN i
    ELSE IF path = nl[i].ne_name THEN i
    ELSE IF best = 0 THEN BestName_mut(nl, i + 1, guid, path, i)
    ELSE IF nl[i].ne_num_labels < nl[best].ne_num_labels
         THEN BestName_mut(nl, i + 1, guid, path, i)
    ELSE BestName_mut(nl, i + 1, guid, path, best)

\* The loop 'for (ne = names; ne != NULL; ne = ne->ne_next)' from entry i on:
\* the index of best, 0 for NULL.
RECURSIVE BestName(_, _, _, _, _)
BestName(nl, i, guid, path, best) ==
    IF i > Len(nl) THEN best
    ELSE IF nl[i].ne_guid # guid THEN BestName(nl, i + 1, guid, path, best)
    ELSE IF path = NoPath THEN i
    ELSE IF path = nl[i].ne_name THEN i
    ELSE IF best = 0 THEN BestName(nl, i + 1, guid, path, i)
    ELSE IF nl[i].ne_num_labels > nl[best].ne_num_labels
         THEN BestName(nl, i + 1, guid, path, i)
    ELSE IF nl[i].ne_num_labels = nl[best].ne_num_labels
            /\ nl[i].ne_order < nl[best].ne_order
         THEN BestName(nl, i + 1, guid, path, i)
    ELSE BestName(nl, i + 1, guid, path, best)

\* The leaf part of zfs_boot_fix_paths; nomem: nvlist_add_string fails.
FixLeaf(nv, nl, nomem) ==
    LET best == BestName(nl, 1, nv.guid, nv.path, 0)
    IN  IF best = 0 THEN [ret |-> 0, nv |-> nv]
        ELSE IF nomem THEN [ret |-> 0 - 1, nv |-> nv]
        ELSE [ret |-> 0,
              nv |-> [nv EXCEPT !.path = nl[best].ne_name,
                                !.devid = zfs_boot_get_devid(nl[best].ne_name)]]

RECURSIVE zfs_boot_fix_paths(_, _, _)

\* The loop over the children from child c on; it stops at the first failure.
RECURSIVE FixChildren(_, _, _, _)
FixChildren(child, c, nl, nomem) ==
    IF c > Len(child) THEN [ret |-> 0, children |-> child]
    ELSE LET r == zfs_boot_fix_paths(child[c], nl, nomem)
         IN  IF r.ret # 0
             THEN [ret |-> 0 - 1, children |-> [child EXCEPT ![c] = r.nv]]
             ELSE FixChildren([child EXCEPT ![c] = r.nv], c + 1, nl, nomem)

\* zfs_boot_fix_paths(nv, names): a vdev with a children array recurses into
\* them, any other vdev is a leaf.
zfs_boot_fix_paths(nv, nl, nomem) ==
    IF nv.leaf THEN FixLeaf(nv, nl, nomem)
    ELSE LET r == FixChildren(nv.children, 1, nl, nomem)
         IN  [ret |-> r.ret, nv |-> [nv EXCEPT !.children = r.children]]

\* ---------------------------------------- specification of the path fixup
\* NameEntries as zfs_boot_add_config links them: at the head of the list,
\* with order 1 and the label count of the probe.
FixNames ==
    { name_entry(PathOf(m), g, 1, n) : m \in {1, 2}, g \in {11, 12},
                                       n \in {1, VDEV_LABELS} }
FixPaths == {NoPath, PathOf(1), PathOf(2), PathOf(3)}
FixLeaves ==
    { Leaf(g, p, d) : g \in {11, 12, 13}, p \in FixPaths,
                      d \in {NoName, "devid"} }
FixTrees ==
    FixLeaves
    \cup { Interior(21, <<Leaf(11, p1, "devid"), Leaf(12, p2, "devid")>>) :
              p1 \in FixPaths, p2 \in FixPaths }

InitFix ==
    /\ PureInit("p_add")
    /\ AggIdle
    /\ LabelIdle
    /\ OffsetIdle
    /\ CfgIdle
    /\ DevIdle
    /\ FixIdle

\* ne->ne_next = pl->names; pl->names = ne.
FixAddName ==
    /\ fxOut = NoFix
    /\ Len(names) < MaxNames
    /\ \E ne \in FixNames : names' = <<ne>> \o names
    /\ UNCHANGED <<initVars, terminating, disks, memVars, pools, cbVars, wVars,
                   fPc, uaf, unlockedAccess, lockVars, aggVars>>

\* zfs_boot_fix_paths(nvroot, pl->names).
FixCall ==
    /\ fxOut = NoFix
    /\ \E nv \in FixTrees, nomem \in BOOLEAN :
          /\ fxNv' = nv
          /\ fxOut' = zfs_boot_fix_paths(nv, names, nomem)
    /\ UNCHANGED <<initVars, terminating, disks, memVars, treeVars, cbVars,
                   wVars, fPc, uaf, unlockedAccess, lockVars, addLog,
                   freedCfgs, addRet, rlMedia, rlResult, loSize, loOffsets,
                   gcOut, pool_guid, devVars>>

NextFix == FixAddName \/ FixCall

SpecFix == InitFix /\ [][NextFix]_vars

\* ------------------------------------------------- properties of add_config
\* The config entries of the tree, each with the guids of its pool and vdev.
ConfigEntries ==
    UNION { UNION { { [pe_guid |-> pools[p].pe_guid,
                       ve_guid |-> pools[p].pe_vdevs[v].ve_guid,
                       ce_txg |-> pools[p].pe_vdevs[v].ve_configs[c].ce_txg,
                       ce_config |->
                           pools[p].pe_vdevs[v].ve_configs[c].ce_config] :
                      c \in 1..Len(pools[p].pe_vdevs[v].ve_configs) } :
                    v \in 1..Len(pools[p].pe_vdevs) } :
            p \in 1..Len(pools) }

SpareWithGuid(config) ==
    /\ config.pool_state \in {POOL_STATE_SPARE, POOL_STATE_L2CACHE}
    /\ config.guid # Absent

HasRequired(config) ==
    /\ config.pool_guid # Absent
    /\ config.guid # Absent
    /\ config.top_guid # Absent
    /\ config.txg # Absent
    /\ config.txg > 0

\* Calls whose config is to become (or duplicate) a ConfigEntry.
Accepted(i) == ~SpareWithGuid(addLog[i]) /\ HasRequired(addLog[i])

SameKey(a, b) ==
    a.pool_guid = b.pool_guid /\ a.top_guid = b.top_guid /\ a.txg = b.txg

RECURSIVE ExpectedFreed(_)
ExpectedFreed(n) ==
    IF n = 0 THEN <<>>
    ELSE IF /\ ~SpareWithGuid(addLog[n])
            /\ \/ ~HasRequired(addLog[n])
               \/ \E j \in 1..(n - 1) :
                     Accepted(j) /\ SameKey(addLog[j], addLog[n])
         THEN Append(ExpectedFreed(n - 1), addLog[n])
         ELSE ExpectedFreed(n - 1)

C10_UniqueGuids ==
    /\ \A a, b \in 1..Len(pools) :
          a # b => pools[a].pe_guid # pools[b].pe_guid
    /\ \A p \in 1..Len(pools) :
          \A a, b \in 1..Len(pools[p].pe_vdevs) :
             a # b => pools[p].pe_vdevs[a].ve_guid # pools[p].pe_vdevs[b].ve_guid

\* Three accepted configs for one pool, two of them for the same top-level vdev.
C10_Witness ==
    /\ Len(pools) = 1
    /\ Len(pools[1].pe_vdevs) = 2
    /\ Cardinality(ConfigEntries) = 3

\* ---------------------------------------------------- teardown properties
NoDuplicates(set) ==
    \A i, j \in 1..Len(set) : i # j => set[i] # set[j]

FreePcs == {"f_fetch", "f_setterm", "f_remove", "f_drain", "f_destroy",
            "f_disks", "f_tree", "f_free"}

\* C1: zfs_boot_free has removed the notifier, and no callback is in flight,
\* before the lock is destroyed, the disks set released or any pool_list_t
\* memory freed; no callback touches destroyed or freed state.
C1_RemoveBeforeFree ==
    /\ (wPc \in {"f_destroy", "f_disks", "f_tree", "f_free"}
        \/ lockState = "destroyed" \/ disksReleased \/ treeFreed \/ plFreed > 0)
       => (~notifierReg /\ \A c \in Callbacks : cbPc[c] = "idle")
    /\ "callback" \notin uaf

\* zfs_boot_free waits in IONotifier::remove for a callback that is about to
\* take the lock.
C1_Witness ==
    /\ wPc = "f_drain"
    /\ \E c \in Callbacks : cbPc[c] = "enter"
    /\ lockState = "init"

\* C2: zfs_boot_fini never reads, compare-and-swaps or signals through a
\* pool_list_t that the worker has freed.
C2_FiniNeverTouchesFreed == "fini" \notin uaf

\* C3 as stated: the flag never leaves Terminating, the pool_list_t is freed
\* at most once and never while the flag is Active.
C3_SingleShot ==
    /\ [](plFreed <= 1 /\ ~plFreedActive)
    /\ [][terminating = ZFS_BOOT_TERMINATING
            => terminating' = ZFS_BOOT_TERMINATING]_vars

\* C3 amended: the flag never leaves Terminating, the pool_list_t is freed at
\* most once, and a free with the flag Active is the one of the error path of
\* zfs_boot_init (notification not registered, nothing published).
C3_SingleShotTeardown ==
    /\ [](/\ plFreed <= 1
          /\ plFreedActive => (initPc = "failed" /\ wPc = "idle" /\ ~notifierReg
                               /\ ~zfs_boot_pool_list))
    /\ [][terminating = ZFS_BOOT_TERMINATING
            => terminating' = ZFS_BOOT_TERMINATING]_vars

\* zfs_boot_fini set the flag and the worker completed zfs_boot_free.
C3_Witness ==
    /\ plFreed = 1
    /\ wPc = "done"
    /\ fPc = "done"
    /\ terminating = ZFS_BOOT_TERMINATING
    /\ ~plFreedActive
    /\ "fini" \notin uaf

\* C4 as stated: disks holds each device at most once and is non-empty only
\* while terminating = Active.
C4_DisksOnlyWhileActive ==
    /\ NoDuplicates(disks)
    /\ disks # <<>> => terminating = ZFS_BOOT_ACTIVE

\* C4 amended: disks holds each device at most once; it is empty before the
\* flag is first set Active and for good once zfs_boot_free has flushed it.
C4_DisksUntilFlushed ==
    /\ NoDuplicates(disks)
    /\ disks # <<>> => (terminating # 0 /\ ~disksReleased)

\* Two publications have been delivered, a device is still pending in disks
\* and the flag is already Terminating.
C4_Witness ==
    /\ Len(disks) = 1
    /\ arrivals = 2
    /\ \A c \in Callbacks : cbPc[c] = "idle"
    /\ wDisks = <<>> /\ names = <<>>
    /\ terminating = ZFS_BOOT_TERMINATING

\* C5 as stated: the callbacks and the worker access the disks set and the
\* aggregation tree only while holding the lock.
C5_AllAccessLocked == unlockedAccess = {}

\* C7: the worker does not hold the lock while it reads labels, runs
\* get_configs, or is inside try_import / import.
C7_NoLockWhileBlocking ==
    wPc \in {"p_read", "getcfg", "try", "import"} => lockOwner # WorkerId

\* The worker is inside import while a callback holds the lock.
C7_Witness ==
    /\ wPc = "import"
    /\ \E c \in Callbacks : Holds(c) /\ cbPc[c] = "insert"

\* C6: once zfs_boot_fini has set the flag, the worker eventually leaves its
\* loop and enters zfs_boot_free.
C6_WorkerReachesTeardown ==
    (fPc \in {"signal", "done"} /\ terminating = ZFS_BOOT_TERMINATING)
      ~> (wPc \in FreePcs \cup {"post", "done"})

\* ------------------------------------------------- properties of read_label
\* C11: the worker reaches add_config only with a config and a label count of
\* at least 1 from a successful read_label, so every NameEntry has
\* num_labels >= 1.
C11_AddOnlyDecoded ==
    /\ wPc \in {"p_chk3", "p_add"}
         => (wCfg.config # NoConfig /\ wCfg.num_labels >= 1)
    /\ \A i \in 1..Len(names) : names[i].ne_num_labels >= 1

\* The device with the torn labels was added with num_labels = 2 after a
\* device without a usable label was skipped.
C11_Witness ==
    /\ Len(names) = 1
    /\ names[1].ne_num_labels = 2
    /\ wIter = 2
    /\ wPc = "next"

AcceptedCopies == { l \in 1..VDEV_LABELS : LabelAccepted(rlMedia.labels[l]) }
FirstAccepted == CHOOSE l \in AcceptedCopies : \A k \in AcceptedCopies : l <= k
ReadDone == rlResult # NoResult /\ rlResult.err = 0

\* C12: read_label returns the config of the lowest-indexed accepted copy and
\* the number of accepted copies that carry that copy's guid; accepted copies
\* with another guid are discarded without changing the count.
C12_Consensus ==
    (ReadDone /\ AcceptedCopies # {}) =>
       /\ rlResult.config = rlMedia.labels[FirstAccepted].config
       /\ rlResult.num_labels =
             Cardinality({ l \in AcceptedCopies :
                 rlMedia.labels[l].config.guid
                    = rlMedia.labels[FirstAccepted].config.guid })

\* Labels {valid, zeroed, valid with another guid, valid}: copy 0, count 2.
C12_Witness ==
    /\ ReadDone
    /\ rlMedia.labels[1].config.guid = 11
    /\ ~rlMedia.labels[2].unpack
    /\ rlMedia.labels[3].config.guid = 12 /\ 3 \in AcceptedCopies
    /\ rlMedia.labels[4].config.guid = 11 /\ 4 \in AcceptedCopies
    /\ rlResult.config.src = 0
    /\ rlResult.num_labels = 2

\* C13: a successful read_label returns a config exactly when label_count is
\* at least 1, (no config, 0) when no copy is accepted, and never more than 4;
\* a failed read_label returns no config.
C13_ConfigIffCount ==
    rlResult # NoResult =>
       /\ rlResult.err = 0 =>
             /\ rlResult.config # NoConfig <=> rlResult.num_labels >= 1
             /\ rlResult.num_labels <= VDEV_LABELS
             /\ AcceptedCopies = {} =>
                   (rlResult.config = NoConfig /\ rlResult.num_labels = 0)
       /\ rlResult.err # 0 => rlResult.config = NoConfig

\* Four copies were read and unpacked, none was accepted.
C13_Witness ==
    /\ ReadDone
    /\ \A l \in 1..VDEV_LABELS : rlMedia.labels[l].unpack
    /\ rlResult.config = NoConfig
    /\ rlResult.num_labels = 0

\* The acceptance test as the specification words it.
SpecAccepts(copy) ==
    /\ copy.ret = "kIOReturnSuccess" /\ copy.full
    /\ copy.unpack
    /\ copy.config.guid \notin {Absent, 0}
    /\ copy.config.pool_state \in 0..POOL_STATE_L2CACHE
    /\ \/ copy.config.pool_state \in {POOL_STATE_SPARE, POOL_STATE_L2CACHE}
       \/ copy.config.txg \notin {Absent, 0}

\* C14: the copies read_label counts are exactly those read in full that
\* decode, with guid present and non-zero, pool_state present and at most
\* L2CACHE and, unless SPARE or L2CACHE, pool_txg present and non-zero; the
\* result is the one obtained when every other copy is a zeroed label.
C14_AcceptanceTest ==
    ReadDone =>
       LET ok == { l \in 1..VDEV_LABELS : SpecAccepts(rlMedia.labels[l]) }
           cleaned == [rlMedia EXCEPT !.labels =
                          [l \in 1..VDEV_LABELS |->
                              IF l \in ok THEN rlMedia.labels[l]
                              ELSE ZeroedCopy]]
       IN  /\ rlResult.num_labels >= 1 <=> ok # {}
           /\ rlResult.num_labels <= Cardinality(ok)
           /\ ok # {} => \E l \in ok :
                 /\ rlResult.config = rlMedia.labels[l].config
                 /\ \A k \in ok : l <= k
           /\ rlResult = zfs_boot_read_label(cleaned, 0)

\* A pool label without txg was skipped and the spare label after it, which
\* needs no txg, was returned.
C14_Witness ==
    /\ ReadDone
    /\ rlMedia.labels[1].unpack
    /\ rlMedia.labels[1].config.pool_state = POOL_STATE_ACTIVE
    /\ rlMedia.labels[1].config.txg = Absent
    /\ rlMedia.labels[2].config.pool_state = POOL_STATE_SPARE
    /\ rlResult.config.src = 1
    /\ rlResult.num_labels >= 2

\* C15: for a media of at least SPA_MINDEVSIZE the label reads are issued at
\* 0, L, size_aligned - 2L and size_aligned - L, which are pairwise distinct;
\* size_aligned - 4L does not underflow and every read of L bytes ends at or
\* before size_aligned.
C15_LabelOffsets ==
    PassesSizeFilter(loSize) =>
       LET size == P2ALIGN(loSize)
           L == ToU64(labelsize)
           expected == <<ToU64(0), L, Sub64(size, ToU64(2 * labelsize)),
                         Sub64(size, L)>>
       IN  /\ ~Lt64(size, ToU64(VDEV_LABELS * labelsize))
           /\ \A i \in 1..Len(loOffsets) :
                 /\ loOffsets[i] = expected[i]
                 /\ ~Lt64(Add64(loOffsets[i], L), loOffsets[i])
                 /\ ~Lt64(size, Add64(loOffsets[i], L))
           /\ \A i, j \in 1..Len(loOffsets) :
                 i # j => loOffsets[i] # loOffsets[j]

\* All four labels of a media of SPA_MINDEVSIZE + 1 bytes have been read.
C15_Witness ==
    /\ loSize = U64(0, 16, 1)
    /\ Len(loOffsets) = VDEV_LABELS
    /\ loOffsets[4] = Sub64(ToU64(SPA_MINDEVSIZE), ToU64(labelsize))

\* ------------------------------------------------ properties of get_configs
\* The best config of every top-level vdev of a pool entry.
BestOf(pe) ==
    { BestConfig(pe.pe_vdevs[v].ve_configs, 0, NoConfig) :
         v \in 1..Len(pe.pe_vdevs) }
\* Those with the latest txg of the pool.
MaxTxgBest(pe) == { b \in BestOf(pe) : \A o \in BestOf(pe) : o.txg <= b.txg }

GetDone == gcOut.ret = "ok"

\* C16: when the best config with the latest txg of the pool carries
\* vdev_children, the root vdev has exactly vdev_children children and no
\* discovered vdev with an id at or beyond it.
C16_ChildCount ==
    GetDone => \A i \in 1..Len(gcOut.configs) :
       LET cfg == gcOut.configs[i]
       IN  /\ cfg.vdev_children \in
                 { b.vdev_children : b \in MaxTxgBest(pools[i]) }
           /\ cfg.vdev_children # Absent =>
                 /\ Len(cfg.children) = cfg.vdev_children
                 /\ \A c \in 1..Len(cfg.children) :
                       cfg.children[c].type = "vdev"
                          => cfg.children[c].id < cfg.vdev_children

\* The last top-level vdev was discovered, the latest labels count one vdev
\* less, and the root vdev was cut to that count.
C16_Witness ==
    /\ GetDone
    /\ \E v \in 1..Len(pools[1].pe_vdevs) :
          pools[1].pe_vdevs[v].ve_guid = 20 + MaxChildren
    /\ gcOut.configs[1].vdev_children = MaxChildren - 1
    /\ Len(gcOut.configs[1].children) = MaxChildren - 1
    /\ gcOut.configs[1].children[1].type = "vdev"

\* C17 as stated: the child at index c has id c; an index without a
\* discovered vdev holds a hole vdev when c is in hole_array and a missing
\* vdev otherwise, both with guid 0.
C17_SlotsFilled ==
    GetDone => \A i \in 1..Len(gcOut.configs) :
       LET cfg == gcOut.configs[i]
       IN  \A c \in 1..Len(cfg.children) :
              /\ cfg.children[c].id = c - 1
              /\ \/ cfg.children[c].type = "vdev"
                 \/ cfg.children[c] =
                       Placeholder(IF (c - 1) \in cfg.hole_array
                                   THEN "hole" ELSE "missing", c - 1)

\* C18: the vdev_tree placed for a VdevEntry is the one of its config with
\* the latest txg, and vdev_children / hole_array of the output are those of
\* a best config with the latest txg of the pool.
C18_BestByTxg ==
    GetDone => \A i \in 1..Len(gcOut.configs) :
       LET cfg == gcOut.configs[i]
           pe == pools[i]
       IN  /\ \A v \in 1..Len(pe.pe_vdevs) :
                 LET cs == pe.pe_vdevs[v].ve_configs
                     top == CHOOSE k \in 1..Len(cs) :
                               \A j \in 1..Len(cs) : cs[j].ce_txg <= cs[k].ce_txg
                     best == cs[top].ce_config
                 IN  best.id < Len(cfg.children)
                        => cfg.children[best.id + 1] = VdevTree(best)
           /\ \A c \in 1..Len(cfg.children) :
                 cfg.children[c].type = "vdev" =>
                    \E b \in BestOf(pe) : cfg.children[c] = VdevTree(b)
           /\ \E b \in MaxTxgBest(pe) :
                 /\ cfg.vdev_children = b.vdev_children
                 /\ cfg.hole_array = b.hole_array

\* A top-level vdev whose older config was inserted last, next to a vdev with
\* an older view of the namespace that is first in the list.
C18_Witness ==
    /\ GetDone
    /\ Len(pools[1].pe_vdevs) = 2
    /\ Len(pools[1].pe_vdevs[2].ve_configs) = 2
    /\ pools[1].pe_vdevs[2].ve_configs[1].ce_txg = 1
    /\ pools[1].pe_vdevs[2].ve_configs[2].ce_txg = 2
    /\ pools[1].pe_vdevs[1].ve_configs[1].ce_txg = 1
    /\ pools[1].pe_vdevs[1].ve_configs[1].ce_config.vdev_children
          # gcOut.configs[1].vdev_children

RECURSIVE AddAll(_, _)
AddAll(pl, configs) ==
    IF configs = <<>> THEN pl
    ELSE LET r == zfs_boot_add_config(pl, PathOf(Head(configs).src), 1,
                                      VDEV_LABELS, Head(configs))
         IN  AddAll([pools |-> r.pools, names |-> r.names], Tail(configs))

Perms(n) == { f \in [1..n -> 1..n] : \A i, j \in 1..n : i # j => f[i] # f[j] }

\* The pool configs get_configs returns when fresh memory is zeroed.
ConfigsOf(pl) ==
    LET r == zfs_boot_get_configs(pl, {}, "panic")
    IN  { r.configs[i] : i \in 1..Len(r.configs) }

\* Labels a pool that was written consistently can show: labels of one
\* top-level vdev and txg are equal, and labels of one txg agree on
\* vdev_children and hole_array.
ConsistentLabels ==
    \A i, j \in 1..Len(addLog) :
       /\ SameKey(addLog[i], addLog[j]) => addLog[i] = addLog[j]
       /\ addLog[i].txg = addLog[j].txg =>
             /\ addLog[i].vdev_children = addLog[j].vdev_children
             /\ addLog[i].hole_array = addLog[j].hole_array

\* C19 as stated, already for consistent labels: whatever the order in which
\* the probed configs are passed to add_config, get_configs returns the same
\* pool configs (header fields, vdev_children, hole_array and children).
C19_Commutative ==
    ConsistentLabels =>
       \A f \in Perms(Len(addLog)) :
          ConfigsOf(AddAll([pools |-> <<>>, names |-> <<>>],
                           [i \in 1..Len(addLog) |-> addLog[f[i]]]))
             = ConfigsOf([pools |-> pools, names |-> names])

\* ---------------------------------------------------- watcher properties
FilterPasses(m) ==
    IsLeaf(m) /\ MediaSize(m) >= SPA_MINDEVSIZE /\ HasBSDName(m)

TargetMatches(config) ==
    \/ pool_name \notin {NoName, ""} /\ config.pool_name = pool_name
    \/ pool_guid # 0 /\ config.pool_guid = pool_guid

OwnersOf(config) ==
    { pvc \in (1..Len(pools)) \X (1..MaxArrivals) \X (1..MaxArrivals) :
         /\ pvc[2] <= Len(pools[pvc[1]].pe_vdevs)
         /\ pvc[3] <= Len(pools[pvc[1]].pe_vdevs[pvc[2]].ve_configs)
         /\ pools[pvc[1]].pe_vdevs[pvc[2]].ve_configs[pvc[3]].ce_config
               = config }

\* C27 as stated: when zfs_boot_probe_disk returns, the config read_label
\* handed it is owned by exactly one ConfigEntry or has been freed.
C27_OwnedOrFreed ==
    (wPc = "next" /\ wCfg.config # NoConfig) =>
       /\ wCfg.fate \in {"stored", "freed"}
       /\ wCfg.fate = "stored" => Cardinality(OwnersOf(wCfg.config)) = 1

\* ------------------------------------------- properties of zfs_boot_init
\* Nothing of the engine exists: no pool_list_t, notifier, lock or worker.
NothingCreated ==
    /\ ~zfs_boot_pool_list
    /\ ~notifierReg
    /\ ~notifierField
    /\ terminating = 0
    /\ lockState = "uninit"
    /\ cvState = "uninit"
    /\ plFreed = 0
    /\ disks = <<>>
    /\ wPc = "idle"
    /\ arrivals = 0
    /\ \A c \in Callbacks : cbPc[c] = "idle"
    /\ pools = <<>> /\ names = <<>>

\* C22: once zfs_boot_check_mountroot has declined (no pool name was stored),
\* zfs_boot_init has returned and in every later state there is no
\* pool_list_t, no notifier and no worker, and no callback has run.
C22_DeclineCreatesNothing ==
    (initPc # "check" /\ pool_name = NoName) =>
       (initPc = "declined" /\ NothingCreated)

\* zfs_boot_init declined and zfs_boot_fini has since run and found nothing.
C22_Witness ==
    /\ initPc = "declined"
    /\ pool_name = NoName
    /\ fPc = "done"

\* C23 as stated: with an empty pool name and pool guid 0 nothing is created.
C23_EmptyNameDeclines ==
    (pool_name = "" /\ pool_guid = 0) => NothingCreated

\* ------------------------------------------ properties of the boot device
\* C24 as stated: the device reports block size 512, maximum valid block
\* 2^29 - 1 and a format capacity of 512 * 2^29 bytes.
C24_DeviceGeometry ==
    \A i \in 1..Len(bdLog) :
       bdLog[i].r.out # <<>> =>
          bdLog[i].r.out[1] =
             CASE bdLog[i].op = "reportBlockSize" -> ToU64(512)
               [] bdLog[i].op = "reportMaxValidBlock" ->
                     Sub64(ToU64(2^29), ToU64(1))
               [] bdLog[i].op = "doGetFormatCapacities" ->
                     Mul64(ToU64(512), ToU64(2^29))

\* C25 as stated: the only panic is the one for the missing boot-uuid
\* resource; every error zfs_boot_publish_bootfs returns is survived.
C25_OnlyUuidPanics ==
    panicked => pbPc \in {"panic_resource", "panic_uuid"}

\* C26 as stated: the poll for the child IOMedia ends, whether or not the
\* host ever publishes the media.
C26_PollTerminates ==
    (pbPc = "poll") ~> (pbPc # "poll")

\* ------------------------------------ properties of the child array growth
\* The child array of pool entry pe after the loop over its top-level vdevs
\* and the cut or growth to vdev_children, before the hole and missing passes,
\* when the fresh memory is non-NULL at the indices in junk.
GrownChild(pe, junk) ==
    NormalizeChild(TopLevels(pe.pe_vdevs, 1,
                      [tmp |-> NoConfig, max_txg |-> 0, max_id |-> 0,
                       valid_top_config |-> FALSE, hole_array |-> {},
                       config |-> NoPoolConfig, config_seen |-> FALSE,
                       child |-> <<>>], junk), junk)

\* C28 as stated: whatever the allocator returns, after the array has grown
\* every placed child sits at the index of its id and every other slot is
\* empty (NULL).
C28_NewSlotsEmpty ==
    \A i \in 1..Len(pools), junk \in SUBSET JunkSlots :
       LET child == GrownChild(pools[i], junk)
       IN  \A c \in 1..Len(child) :
              \/ child[c] = NullChild
              \/ child[c].type = "vdev" /\ child[c].id = c - 1

\* ------------------------------------------- properties of the import loop
\* C30: spa_tryimport is entered only for the current pool config when it is
\* not DESTROYED and no pool has been imported; spa_import is entered only
\* from a spa_tryimport of the same pool config that returned a config.
C30_ImportLoop ==
    [][/\ wPc' = "try" =>
             /\ wConfigs' # <<>>
             /\ Head(wConfigs').pool_state # POOL_STATE_DESTROYED
             /\ ~pool_imported'
       /\ (wPc' = "import" /\ wPc # "import") =>
             /\ wPc = "try"
             /\ wConfigs' = wConfigs
             /\ Head(wConfigs).pool_state # POOL_STATE_DESTROYED
       /\ pool_imported => wPc' \notin {"imp_next", "chk5", "try", "import"}
      ]_vars

\* The destroyed pool, first in the tree, was skipped and spa_import is
\* called for the pool after it.
C30_Witness ==
    /\ wPc = "import"
    /\ Len(pools) = 2
    /\ pools[1].pe_guid = 8
    /\ Len(wConfigs) = 1
    /\ wConfigs[1].pool_state = POOL_STATE_ACTIVE

\* ------------------------------------------- properties of the path fixup
\* The leaves handed to zfs_boot_fix_paths, each with what it became.
FixedLeaves ==
    IF fxNv.leaf THEN {<<fxNv, fxOut.nv>>}
    ELSE { <<fxNv.children[c], fxOut.nv.children[c]>> :
              c \in 1..Len(fxNv.children) }

\* Indices of the NameEntries with guid g, in list order.
Candidates(g) == { i \in 1..Len(names) : names[i].ne_guid = g }

\* Most labels, then lower order, then first encountered.
MostLabels(g) ==
    CHOOSE i \in Candidates(g) : \A j \in Candidates(g) :
       \/ names[i].ne_num_labels > names[j].ne_num_labels
       \/ /\ names[i].ne_num_labels = names[j].ne_num_labels
          /\ names[i].ne_order < names[j].ne_order
       \/ /\ names[i].ne_num_labels = names[j].ne_num_labels
          /\ names[i].ne_order = names[j].ne_order
          /\ i <= j

FirstCandidate(g) == CHOOSE i \in Candidates(g) : \A j \in Candidates(g) : i <= j

PathKept(leaf) ==
    /\ leaf.path # NoPath
    /\ \E i \in Candidates(leaf.guid) : names[i].ne_name = leaf.path

\* The leaf after the fixup when entry pick is written.
Written(leaf, pick) ==
    [leaf EXCEPT !.path = names[pick].ne_name, !.devid = NoName]

\* C29 as stated: a leaf without a path gets the name with the most labels.
C29_BestByLabels ==
    fxOut.ret = 0 => \A lf \in FixedLeaves :
       lf[2] = IF Candidates(lf[1].guid) = {} THEN lf[1]
               ELSE IF PathKept(lf[1])
                    THEN [lf[1] EXCEPT !.devid = NoName]
                    ELSE Written(lf[1], MostLabels(lf[1].guid))

\* C29 amended: a leaf without a path gets the name of the first NameEntry
\* with its guid in list order; a leaf whose path matches no candidate gets
\* the one with the most labels, then lower order, then first encountered; a
\* path equal to a candidate's name is kept; devid is cleared whenever a name
\* is written; a leaf with no candidate is unchanged.
C29_FirstWhenNoPath ==
    fxOut.ret = 0 => \A lf \in FixedLeaves :
       lf[2] = IF Candidates(lf[1].guid) = {} THEN lf[1]
               ELSE IF PathKept(lf[1])
                    THEN [lf[1] EXCEPT !.devid = NoName]
                    ELSE IF lf[1].path = NoPath
                         THEN Written(lf[1], FirstCandidate(lf[1].guid))
                         ELSE Written(lf[1], MostLabels(lf[1].guid))

\* A leaf without a path and with a devid has two candidates, the first with
\* fewer labels than the second, and was given the first one's name.
C29_Witness ==
    /\ fxOut.ret = 0
    /\ fxNv.leaf
    /\ fxNv.path = NoPath
    /\ fxNv.devid # NoName
    /\ Len(names) >= 2
    /\ names[1].ne_guid = fxNv.guid
    /\ names[2].ne_guid = fxNv.guid
    /\ names[1].ne_num_labels < names[2].ne_num_labels
    /\ names[1].ne_name # names[2].ne_name
    /\ fxOut.nv.path = names[1].ne_name
    /\ fxOut.nv.devid = NoName

\* --------------------------------------------- properties of the worker exit
\* C36 as stated: once the worker has returned from zfs_boot_free the notifier
\* is removed, the pool_list_t is freed and the global pointer is null.
C36_ExitMeansTornDown ==
    wPc \in {"post", "done"} =>
       /\ ~notifierReg
       /\ plFreed = 1
       /\ ~zfs_boot_pool_list

\* C31 as stated: the worker enters the publish block only with an imported
\* pool and with the pool_list_t torn down and freed.
C31_PublishAfterTeardown ==
    [][(wPc = "post" /\ wPc' = "done" /\ pool_imported) =>
          /\ plFreed = 1
          /\ treeFreed
          /\ disksReleased
          /\ ~notifierReg]_vars

\* C32: a worker step that leaves the end of the import loop, or one of the
\* positions between it and the timed wait, without an imported pool keeps
\* the tree and the pool_list_t, stays in the loop, and goes to out_locked
\* only when terminating is no longer Active.
C32_FailedImportKeepsWaiting ==
    [][(/\ wPc' # wPc
        /\ wPc \in {"imp_next", "enter2", "next_locked", "chk6"}
        /\ wPc = "imp_next" => wConfigs = <<>>
        /\ ~pool_imported) =>
          /\ pools' = pools
          /\ names' = names
          /\ plFreed' = 0
          /\ ~treeFreed'
          /\ wPc' \in {"enter2", "next_locked", "head", "chk6", "wait",
                        "out_locked"}
          /\ wPc' = "out_locked" => terminating # ZFS_BOOT_ACTIVE]_vars

\* The import of the one pool found was refused and the worker sleeps with
\* the pool still in the tree.
C32_Witness ==
    /\ wPc = "sleeping"
    /\ terminating = ZFS_BOOT_ACTIVE
    /\ ~pool_imported
    /\ ~lockMisuse
    /\ Len(pools) = 1
    /\ pools[1].pe_guid = 7
    /\ wConfigs = <<>>

\* ------------------------------------------ properties of the pending set
InDisks(m) == \E i \in 1..Len(disks) : disks[i] = m
\* The worker calls zfs_boot_probe_disk for media m.
Probing(m) == wPc = "p_chk1" /\ wDisks[wIter] = m

\* C33 as stated: a device in disks is eventually handed to
\* zfs_boot_probe_disk, unless terminating is set first.
C33_EveryDeviceProbed ==
    \A m \in MediaIds :
       (InDisks(m) /\ terminating = ZFS_BOOT_ACTIVE)
          ~> (Probing(m) \/ terminating # ZFS_BOOT_ACTIVE)

\* ------------------------------------------------- properties of the lock
\* C34 as stated: a callback executes mutex_enter and cv_signal only after
\* mutex_init and cv_init.
C34_InitBeforeUse ==
    [][\A c \in Callbacks :
          (cbPc[c] \in {"enter", "signal"} /\ cbPc'[c] # cbPc[c]) =>
             (lockState # "uninit" /\ cvState # "uninit")]_vars

\* C35 as stated: the worker owns the lock when it is at the loop head, when
\* it executes mutex_exit and when it enters cv_timedwait_sig, and does not
\* own it when it executes mutex_enter.
C35_WorkerLockDiscipline ==
    [][wPc' # wPc =>
          /\ wPc \in {"head", "exit1", "exit2", "out_locked", "merge_exit",
                       "wait"} => Holds(WorkerId)
          /\ wPc \in {"enter0", "enter1", "enter2", "merge_enter"}
                => lockOwner # WorkerId]_vars

\* --------------------------------------------------- absence of deadlock
\* A thread that waits: a callback or the worker for the lock, the worker for
\* the callbacks in flight.
CallbackBlocked(c) == cbPc[c] = "enter" /\ lockState = "init" /\ lockOwner # NoOwner
WorkerBlocked ==
    \/ /\ wPc \in {"enter0", "enter1", "enter2", "merge_enter", "sleeping"}
       /\ lockState = "init"
       /\ lockOwner # NoOwner
    \/ wPc = "f_drain" /\ ~NotifierDrained

\* C37: the worker does not own the lock while it removes the notifier and
\* waits for the callbacks in flight, and whenever a thread waits, some
\* thread can take a step.
C37_NoDeadlock ==
    /\ wPc \in {"f_remove", "f_drain"} => lockOwner # WorkerId
    /\ (~panicked /\ (WorkerBlocked \/ \E c \in Callbacks : CallbackBlocked(c)))
          => ENABLED (\/ zfs_boot_import_thread
                      \/ zfs_boot_free
                      \/ \E c \in Callbacks : CbSteps(c))

\* The worker waits for the drain while a callback is about to take the lock.
C37_Witness ==
    /\ wPc = "f_drain"
    /\ \E c \in Callbacks : cbPc[c] = "enter"
    /\ lockState = "init"
    /\ ~panicked

\* ------------------------------------------ properties of a loop iteration
\* Positions of the worker from zfs_boot_get_configs to the end of the import
\* loop.
ImportPcs == {"getcfg", "chk4", "imp_next", "chk5", "try", "import"}

\* C38: the worker reaches zfs_boot_get_configs only at the end of the chain
\* swap of a non-empty set, probes of all its members, recheck that found
\* disks empty; the import loop is entered only from there; at the loop head
\* with no device pending the worker goes to next_locked.
C38_ImportOnlyAfterDrain ==
    [][wPc' # wPc =>
          /\ wPc' = "exit1" => (wPc = "swap" /\ wDisks' # <<>>)
          /\ wPc' = "chk3" =>
                (wPc = "next" /\ wDisks # <<>> /\ wIter = Len(wDisks))
          /\ wPc' = "enter1" => wPc = "chk3"
          /\ wPc' = "count1" => wPc = "enter1"
          /\ wPc' = "exit2" => (wPc = "count1" /\ Len(disks) = 0)
          /\ wPc' = "getcfg" => wPc = "exit2"
          /\ wPc' \in ImportPcs \ {"getcfg"} => wPc \in ImportPcs
          /\ (wPc = "count" /\ Len(disks) = 0) => wPc' = "next_locked"]_vars

\* The worker is at the loop head again with the tree filled by an earlier
\* iteration and no device pending.
C38_Witness ==
    /\ wPc = "count"
    /\ Len(disks) = 0
    /\ pools # <<>>
    /\ ~pool_imported
    /\ terminating = ZFS_BOOT_ACTIVE
    /\ ~lockMisuse

\* C39: with terminating set the worker enters neither the label read of
\* zfs_boot_probe_disk nor spa_tryimport; a read or a try it had already
\* entered is the only one still made.
C39_NoNewWorkOnceTerminating ==
    [][(terminating # ZFS_BOOT_ACTIVE /\ wPc' # wPc) =>
          wPc' \notin {"p_read", "try"}]_vars

\* With terminating set the worker is in zfs_boot_probe_disk for a device
\* that is not the last of the drained set.
C39_Witness ==
    /\ terminating = ZFS_BOOT_TERMINATING
    /\ wPc = "p_chk1"
    /\ wIter < Len(wDisks)
    /\ ~panicked

\* -------------------------------------------- frame of zfs_boot_get_configs
\* C40 as stated: zfs_boot_get_configs leaves the tree and the name list as
\* they are, and what it returns depends on them alone.
C40_GetConfigsFrame ==
    /\ [](\A junk \in SUBSET JunkSlots :
             zfs_boot_get_configs([pools |-> pools, names |-> names], junk,
                                  "stale")
               = zfs_boot_get_configs([pools |-> pools, names |-> names], {},
                                      "stale"))
    /\ [][gcOut' # gcOut => (pools' = pools /\ names' = names)]_vars

====
